---- MODULE Spec2Model ----
(***************************************************************************)
(* Model of the valuation and fundamentals core of StockMarketTools:       *)
(*   models/valuation.py   DcfAssumptions.validate, calculate_fair_value,  *)
(*                         calculate_fair_value_range                      *)
(*   utils/fundamentals.py extract_fundamentals and its helpers            *)
(*                                                                         *)
(* Floating-point numbers are modelled as exact rationals <<n, d>> in      *)
(* lowest terms with d > 0, extended with the IEEE special values that     *)
(* numpy float64 arithmetic produces on a division by zero:                *)
(*   <<1, 0>> is +inf, <<-1, 0>> is -inf and <<0, 0>> is NaN.              *)
(* Rounding is not modelled.  None (Python's None) is the empty tuple.     *)
(***************************************************************************)
EXTENDS Integers, Sequences, FiniteSets, TLC

VARIABLES
    cashflow,            \* the cash-flow table handed to the valuation engine
    balance_sheet,       \* the balance-sheet table handed to the normalizer
    info,                \* the ticker's info mapping
    net_debt,            \* net_debt argument of the valuation engine
    shares_outstanding,  \* shares_outstanding argument of the valuation engine
    assumptions,         \* the DcfAssumptions object of the caller
    variation,           \* discount_rate_variation / growth_rate_variation
    now,                 \* the UTC clock, in seconds
    last,                \* the latest call: its function, arguments and outcome
    prev,                \* the call made before the latest one
    tickers,             \* what the data provider returns for each screened ticker
    loop,                \* the batch loop in progress: index, results, progress bar
    keywords,            \* the keyword rate arguments of calculate_fair_value
    bundle,              \* the single-ticker page: ticker, timeframe and what the pulls yield
    garp_assumptions     \* default_assumptions of the Growth-at-a-Reasonable-Price philosophy

vars == <<cashflow, balance_sheet, info, net_debt, shares_outstanding,
          assumptions, variation, now, last, prev, tickers, loop,
          keywords, bundle, garp_assumptions>>

None == <<>>

(***************************************************************************)
(* Float arithmetic (exact rationals plus inf / NaN).                      *)
(***************************************************************************)
Abs(x) == IF x < 0 THEN -x ELSE x

Sgn(x) == IF x > 0 THEN 1 ELSE IF x < 0 THEN -1 ELSE 0

RECURSIVE Gcd(_, _)
Gcd(a, b) == IF b = 0 THEN a ELSE Gcd(b, a % b)

\* The float with numerator n and denominator d: lowest terms, d > 0;
\* a zero denominator gives +inf, -inf or NaN by the sign of n.
Norm(n, d) ==
    IF d = 0 THEN <<Sgn(n), 0>>
    ELSE LET g == Gcd(Abs(n), Abs(d))
         IN  <<Sgn(d) * (n \div g), Abs(d) \div g>>

R(i) == <<i, 1>>

Inf == <<1, 0>>
NaN == <<0, 0>>

IsNaN(a) == a = NaN
IsFinite(a) == a[2] # 0

Neg(a) == <<-a[1], a[2]>>

FMul(a, b) ==
    IF a[2] = 0 \/ b[2] = 0
    THEN <<Sgn(a[1]) * Sgn(b[1]), 0>>
         \* inf * 0 and NaN * x are NaN, inf * x keeps the product's sign
    ELSE LET g1 == Gcd(Abs(a[1]), b[2])
             g2 == Gcd(Abs(b[1]), a[2])
         IN  <<(a[1] \div g1) * (b[1] \div g2), (a[2] \div g2) * (b[2] \div g1)>>

FAdd(a, b) ==
    IF IsNaN(a) \/ IsNaN(b) THEN NaN
    ELSE IF a[2] = 0 /\ b[2] = 0 THEN (IF a = b THEN a ELSE NaN)
    ELSE IF a[2] = 0 THEN a
    ELSE IF b[2] = 0 THEN b
    ELSE LET g == Gcd(a[2], b[2])
         IN  Norm(a[1] * (b[2] \div g) + b[1] * (a[2] \div g), (a[2] \div g) * b[2])

FSub(a, b) == FAdd(a, Neg(b))

\* 1 / b in float64 arithmetic: 1 / 0 is inf, 1 / inf is 0, 1 / NaN is NaN.
Recip(b) ==
    IF b = NaN THEN NaN
    ELSE IF b[2] = 0 THEN R(0)
    ELSE IF b[1] = 0 THEN Inf
    ELSE <<Sgn(b[1]) * b[2], Abs(b[1])>>

\* numpy float64 division: a division by zero warns and yields inf or NaN.
FDiv(a, b) == FMul(a, Recip(b))

RECURSIVE FPow(_, _)
FPow(a, k) == IF k <= 0 THEN R(1) ELSE FMul(a, FPow(a, k - 1))

\* a < b on finite floats with positive denominators, without forming the
\* cross products: compare the integer parts, then the fractional parts.
RECURSIVE RatLess(_, _, _, _)
RatLess(an, ad, bn, bd) ==
    LET aq == an \div ad
        bq == bn \div bd
        ar == an % ad
        br == bn % bd
    IN  IF aq # bq THEN aq < bq
        ELSE IF br = 0 THEN FALSE
        ELSE IF ar = 0 THEN TRUE
        ELSE RatLess(bd, br, ad, ar)

\* IEEE comparison: every comparison with NaN is false.
FLt(a, b) ==
    IF IsNaN(a) \/ IsNaN(b) THEN FALSE
    ELSE IF a[2] = 0 /\ b[2] = 0 THEN a[1] < b[1]
    ELSE IF a[2] = 0 THEN a[1] < 0
    ELSE IF b[2] = 0 THEN b[1] > 0
    ELSE RatLess(a[1], a[2], b[1], b[2])

FLe(a, b) == ~IsNaN(a) /\ ~IsNaN(b) /\ (a = b \/ FLt(a, b))

FGt(a, b) == FLt(b, a)

\* Python truthiness of an optional number: None, 0 and 0.0 are false.
Truthy(x) == x # None /\ x # R(0)

\* An optional string: None or <<s>>.
Str(s) == <<s>>

(***************************************************************************)
(* Tables (pandas DataFrames).  A frame has column labels in table order,  *)
(* row labels, one sequence of cells per row, and the kind of its cells:   *)
(* numpy float64 scalars (a float64 column) or Python floats (an object    *)
(* column).  A column label is an ISO date string, a Timestamp or a text   *)
(* that is no date; dates are day numbers.                                 *)
(***************************************************************************)
Iso(k) == [form |-> "iso", date |-> k, text |-> ""]
Ts(k) == [form |-> "timestamp", date |-> k, text |-> ""]
Text(s) == [form |-> "text", date |-> 0, text |-> s]

NaT == 0

\* pd.to_datetime(label, errors="coerce"): the date, or NaT for a text.
ToDatetime(label) == IF label.form = "text" THEN NaT ELSE label.date

\* Timestamp.strftime("%Y-%m-%d"): the ISO date string of a date.
Strftime(date) == Iso(date)

\* An emptiness test that looks at the columns alone.
EmptyOfColumns(frame) == Len(frame.columns) = 0

\* frame.empty: no columns or no rows.
Empty(frame) == Len(frame.columns) = 0 \/ Len(frame.index) = 0

RowOf(frame, label) ==
    CHOOSE r \in 1..Len(frame.index) : frame.index[r] = label

HasRow(frame, label) == \E r \in 1..Len(frame.index) : frame.index[r] = label

\* The largest date of a sequence of parsed labels, NaT (0) when none parsed.
MaxDate(parsed) ==
    IF Len(parsed) = 0 THEN NaT
    ELSE CHOOSE m \in {parsed[j] : j \in 1..Len(parsed)} :
             \A j \in 1..Len(parsed) : parsed[j] <= m

\* Series.idxmax(): the first position of the largest value, NaT skipped.
IdxMax(parsed) ==
    CHOOSE j \in 1..Len(parsed) :
        /\ parsed[j] = MaxDate(parsed)
        /\ \A k \in 1..(j - 1) : parsed[k] # MaxDate(parsed)

\* A selection that always takes the first column.
LatestPeriodColumnFirst(frame) ==
    IF frame = None THEN 0
    ELSE IF Empty(frame) THEN 0
    ELSE 1

\* models/valuation.py _latest_period_column: the position (1-based) of the
\* latest column, 0 for None.
LatestPeriodColumn(frame) ==
    IF frame = None THEN 0
    ELSE IF Empty(frame) THEN 0
    ELSE LET parsed == [j \in 1..Len(frame.columns) |-> ToDatetime(frame.columns[j])]
         IN  IF \E j \in 1..Len(parsed) : parsed[j] # NaT
             THEN IdxMax(parsed)
             ELSE 1

\* The label _latest_period_column returns.
LatestPeriodLabel(frame) ==
    IF LatestPeriodColumn(frame) = 0 THEN None
    ELSE frame.columns[LatestPeriodColumn(frame)]

\* models/valuation.py _latest_free_cash_flow: the cell, or the exception.
LatestFreeCashFlow(frame) ==
    LET col == LatestPeriodColumn(frame)
    IN  IF col = 0
        THEN [raised |-> "ValueError", value |-> None]
        ELSE IF ~HasRow(frame, "Free Cash Flow")
        THEN [raised |-> "KeyError", value |-> None]
        ELSE [raised |-> "", value |-> frame.cells[RowOf(frame, "Free Cash Flow")][col]]

(***************************************************************************)
(* DcfAssumptions and the valuation engine.                                *)
(***************************************************************************)
DcfAssumptions(d, g, tg, n) ==
    [discount_rate |-> d, growth_rate |-> g,
     terminal_growth_rate |-> tg, projection_years |-> n]

ValuationResult(ev, eq, fv) ==
    [enterprise_value |-> ev, equity_value |-> eq, fair_value_per_share |-> fv]

Returned(v) == [raised |-> "", value |-> v]
Raised(e) == [raised |-> e, value |-> None]

\* Mutant: the growth rate compounds with the wrong sign.
ProjectedFcfShrinking(fcf, growth_rate, projection_years) ==
    [i \in 1..projection_years |-> FMul(fcf, FPow(FSub(R(1), growth_rate), i))]

\* projected_fcf = [fcf * ((1 + growth_rate) ** i) for i in 1..projection_years]
ProjectedFcf(fcf, growth_rate, projection_years) ==
    [i \in 1..projection_years |-> FMul(fcf, FPow(FAdd(R(1), growth_rate), i))]

\* Mutant: enumerate(projected_fcf) without start=1.
DiscountExponentFromZero(i) == i - 1

\* The exponent enumerate(projected_fcf, start=1) gives the i-th cash flow.
DiscountExponent(i) == i

\* sum([cf / ((1 + discount_rate) ** i) for i, cf in enumerate(projected_fcf, start=1)])
RECURSIVE PvFcf(_, _, _)
PvFcf(projected, discount_rate, k) ==
    IF k = 0 THEN R(0)
    ELSE FAdd(PvFcf(projected, discount_rate, k - 1),
              FDiv(projected[k], FPow(FAdd(R(1), discount_rate), DiscountExponent(k))))

\* if equity_value is not None and shares_outstanding: equity / shares
PerShareGuard(equity_value, shares) == equity_value # None /\ Truthy(shares)

FairValuePerShare(equity_value, shares) ==
    IF PerShareGuard(equity_value, shares) THEN FDiv(equity_value, shares) ELSE None

\* Mutant: net debt added instead of subtracted.
EquityValueAdded(enterprise_value, nd) ==
    IF nd # None THEN FAdd(enterprise_value, nd) ELSE enterprise_value

\* equity_value = enterprise_value - net_debt if net_debt is not None
EquityValue(enterprise_value, nd) ==
    IF nd # None THEN FSub(enterprise_value, nd) ELSE enterprise_value

\* Mutant: the spread of the perpetuity formula taken the other way round.
TerminalValueSwapped(fcf_last, a) ==
    FDiv(FMul(fcf_last, FAdd(R(1), a.terminal_growth_rate)),
         FSub(a.terminal_growth_rate, a.discount_rate))

\* terminal_value = projected_fcf[-1] * (1 + tg) / (discount_rate - tg)
TerminalValue(fcf_last, a) ==
    FDiv(FMul(fcf_last, FAdd(R(1), a.terminal_growth_rate)),
         FSub(a.discount_rate, a.terminal_growth_rate))

\* Mutant: the exception of the cash-flow lookup is not caught.
OnFcfErrorPropagated(e) == Raised(e)

\* except Exception: print the error and return None
OnFcfError(e) == Returned(None)

\* models/valuation.py calculate_fair_value.  A frame of Python floats raises
\* ZeroDivisionError where a float64 frame yields inf or NaN.
CalculateFairValue(frame, nd, shares, a) ==
    LET got == LatestFreeCashFlow(frame)
        fcf == got.value
        n == a.projection_years
        projected == ProjectedFcf(fcf, a.growth_rate, n)
        spread == FSub(a.discount_rate, a.terminal_growth_rate)
        terminal_value == TerminalValue(projected[n], a)
        pv_fcf == PvFcf(projected, a.discount_rate, n)
        growth == FPow(FAdd(R(1), a.discount_rate), n)
        pv_terminal == FDiv(terminal_value, growth)
        enterprise_value == FAdd(pv_fcf, pv_terminal)
        equity_value == EquityValue(enterprise_value, nd)
    IN  IF got.raised # "" THEN OnFcfError(got.raised)
        ELSE IF n < 1 THEN Raised("IndexError")
        ELSE IF ~frame.numpy /\ (spread = R(0) \/ growth = R(0))
        THEN Raised("ZeroDivisionError")
        ELSE Returned(ValuationResult(enterprise_value, equity_value,
                                      FairValuePerShare(equity_value, shares)))

\* DcfAssumptions.defaults()
Defaults == DcfAssumptions(<<1, 10>>, <<3, 100>>, <<1, 50>>, 5)

\* The defaults of the keyword arguments in the signature of
\* calculate_fair_value. The keyword arguments of a call are the names the
\* caller passes and their values.
KeywordDefaults ==
    [discount_rate |-> <<1, 10>>, growth_rate |-> <<3, 100>>,
     terminal_growth_rate |-> <<1, 50>>, projection_years |-> 5]

Keywords(given, values) == [given |-> given, values |-> values]

NoKeywords == Keywords({}, KeywordDefaults)

Keyword(kw, name) ==
    IF name \in kw.given THEN kw.values[name] ELSE KeywordDefaults[name]

\* A resolution that lets a keyword the caller passes win over the object.
ResolveAssumptionsKeywordsFirst(a, kw) ==
    IF a = None
    THEN DcfAssumptions(Keyword(kw, "discount_rate"), Keyword(kw, "growth_rate"),
                        Keyword(kw, "terminal_growth_rate"),
                        Keyword(kw, "projection_years"))
    ELSE [name \in DOMAIN a |-> IF name \in kw.given THEN kw.values[name] ELSE a[name]]

\* Lines 76-82: the assumptions object if there is one, else one built from
\* the keyword arguments.
ResolveAssumptions(a, kw) ==
    IF a = None
    THEN DcfAssumptions(Keyword(kw, "discount_rate"), Keyword(kw, "growth_rate"),
                        Keyword(kw, "terminal_growth_rate"),
                        Keyword(kw, "projection_years"))
    ELSE a

\* calculate_fair_value(cashflow_df, net_debt, shares_outstanding, assumptions,
\*                      discount_rate, growth_rate, terminal_growth_rate,
\*                      projection_years)
CalculateFairValueWith(frame, nd, shares, a, kw) ==
    CalculateFairValue(frame, nd, shares, ResolveAssumptions(a, kw))

\* The nine scenarios in the order of the two nested loops.
Scenarios(a, dv, gv) ==
    LET discount_values == <<FSub(a.discount_rate, dv), a.discount_rate,
                             FAdd(a.discount_rate, dv)>>
        growth_values == <<FSub(a.growth_rate, gv), a.growth_rate,
                           FAdd(a.growth_rate, gv)>>
    IN  [k \in 1..9 |->
            DcfAssumptions(discount_values[((k - 1) \div 3) + 1],
                           growth_values[((k - 1) % 3) + 1],
                           a.terminal_growth_rate, a.projection_years)]

\* if result and result.fair_value_per_share is not None: collect it
Collects(outcome) ==
    outcome.value # None /\ outcome.value.fair_value_per_share # None

\* fair_values after the first k scenarios.
RECURSIVE FairValues(_, _)
FairValues(outcomes, k) ==
    IF k = 0 THEN <<>>
    ELSE IF Collects(outcomes[k])
         THEN Append(FairValues(outcomes, k - 1), outcomes[k].value.fair_value_per_share)
         ELSE FairValues(outcomes, k - 1)

\* Python's min() and max(): keep the first item, replace it by a later one
\* that compares smaller (larger); a NaN never compares.
RECURSIVE PyMinFrom(_, _, _)
PyMinFrom(values, k, m) ==
    IF k > Len(values) THEN m
    ELSE PyMinFrom(values, k + 1, IF FLt(values[k], m) THEN values[k] ELSE m)

PyMin(values) == PyMinFrom(values, 2, values[1])

RECURSIVE PyMaxFrom(_, _, _)
PyMaxFrom(values, k, m) ==
    IF k > Len(values) THEN m
    ELSE PyMaxFrom(values, k + 1, IF FGt(values[k], m) THEN values[k] ELSE m)

PyMax(values) == PyMaxFrom(values, 2, values[1])

\* models/valuation.py calculate_fair_value_range.  The outcome carries the
\* scenarios evaluated, their results and the fair_values list as they stand
\* when the call ends; an exception of a scenario ends the call.
RangeOutcome(scenarios, outcomes) ==
    LET failed == {k \in 1..9 : outcomes[k].raised # ""}
        first == CHOOSE k \in failed : \A j \in failed : k <= j
        fair_values == FairValues(outcomes, 9)
    IN  IF failed # {}
        THEN [raised |-> outcomes[first].raised, value |-> None,
              scenarios |-> SubSeq(scenarios, 1, first),
              results |-> SubSeq(outcomes, 1, first),
              fair_values |-> FairValues(outcomes, first - 1)]
        ELSE [raised |-> "", scenarios |-> scenarios, results |-> outcomes,
              fair_values |-> fair_values,
              value |-> IF fair_values = <<>> THEN None
                        ELSE <<PyMin(fair_values), PyMax(fair_values)>>]

CalculateFairValueRange(frame, nd, shares, a, dv, gv) ==
    LET scenarios == Scenarios(a, dv, gv)
    IN  CHOOSE r \in {RangeOutcome(scenarios, o) : o \in
            {[k \in 1..9 |-> CalculateFairValue(frame, nd, shares, scenarios[k])]}} : TRUE

(***************************************************************************)
(* app.py: load_stock_bundle and single_stock_analysis                     *)
(***************************************************************************)
\* What a pull yields: an exception, or the dictionary get_stock_data
\* returns, {} after a failure of the provider and four keys otherwise.
Pulled(raises, keys, has_info, has_history) ==
    [raises |-> raises, keys |-> keys, has_info |-> has_info, has_history |-> has_history]

\* resolve_timeframe(option)[1], lines 162-230
TimeframeNote(option) ==
    CASE option = "Intraday (1D)" -> "Displays 1-minute ticks for the current regular session."
      [] option = "1 Week" ->
            "Shows the last five trading days; weekends and holidays are skipped."
      [] option = "1 Month" -> "Based on the most recent month of trading data."
      [] option = "3 Month" -> "Captures the last quarter of trading activity."
      [] option = "6 Month" -> "Highlights the mid-term trend over six months."
      [] option = "1 Year" -> "Represents the trailing twelve months."
      [] option = "3 Year" -> "Pulled from daily closes over the last three calendar years."
      [] option = "5 Year" -> "Long-term performance spanning five years."
      [] option = "10 Year" -> "Decade-long history with monthly sampling when needed."
      [] OTHER -> "Fallback to trailing twelve months."

\* _data_is_complete(data), lines 69-74
DataIsComplete(data) ==
    IF data = None THEN FALSE
    ELSE IF Len(data.keys) = 0 THEN FALSE
    ELSE data.has_info \/ data.has_history

\* The first definition of load_stock_bundle, lines 77-111: the cached pull,
\* one uncached pull when it raises or is incomplete, ({}, note) when that
\* fails too.
LoadStockBundleWithFallback(cached, fresh, timeframe_option) ==
    LET timeframe_note == TimeframeNote(timeframe_option)
        nothing == Pulled(FALSE, <<>>, FALSE, FALSE)
        data == IF cached.raises THEN None ELSE cached
    IN  IF DataIsComplete(data) THEN Returned(<<data, timeframe_note>>)
        ELSE IF fresh.raises THEN Returned(<<nothing, timeframe_note>>)
        ELSE IF ~DataIsComplete(fresh) THEN Returned(<<nothing, timeframe_note>>)
        ELSE Returned(<<fresh, timeframe_note>>)

\* The second definition of load_stock_bundle, lines 232-235, which replaces
\* the first when the module is loaded: the dictionary of one cached pull.
LoadStockBundle(cached, fresh, timeframe_option) ==
    IF cached.raises THEN Raised("Exception") ELSE Returned(cached)

\* data, timeframe_note = <value>: a pair unpacks into its items, a
\* dictionary into its keys, and only when there are two of them.
Unpack(value) ==
    LET items == IF DOMAIN value = 1..2 THEN value ELSE value.keys
    IN  IF Len(items) = 2 THEN Returned(items) ELSE Raised("ValueError")

\* single_stock_analysis, lines 506-546, up to the sections it renders.
SingleStockAnalysis(b) ==
    LET returned == LoadStockBundle(b.cached, b.fresh, b.timeframe_option)
        unpacked == Unpack(returned.value)
        failed == [shown |-> "Unexpected error while retrieving data", returned |-> returned,
                   data |-> None, timeframe_note |-> None]
    IN  IF b.ticker = ""
        THEN [shown |-> "Enter a ticker above to load company data.", returned |-> None,
              data |-> None, timeframe_note |-> None]
        ELSE IF returned.raised # "" THEN failed
        ELSE IF unpacked.raised # "" THEN failed
        ELSE [shown |-> IF Len(unpacked.value[1]) = 0 THEN "" ELSE "Stock Information",
              returned |-> returned,
              data |-> unpacked.value[1],
              timeframe_note |-> unpacked.value[2]]

(***************************************************************************)
(* app.py: render_dcf_section                                              *)
(***************************************************************************)
\* philosophy.default_assumptions.get(name, default), lines 456-459. The
\* mapping is the keys it holds and their values.
PhilosophyGet(default_assumptions, name) ==
    IF name \in default_assumptions.given THEN default_assumptions.values[name]
    ELSE DcfAssumptions(<<1, 10>>, <<3, 100>>, <<1, 50>>, 5)[name]

\* The arguments the two valuation calls bind: the share count is the
\* second positional argument, which both signatures name net_debt.
Bound(shares) == [net_debt |-> shares, shares_outstanding |-> None]

\* render_dcf_section(info, cashflow, philosophy): what the section shows or
\* the exception that ends it. format_currency(base_fair_value) converts the
\* ValuationResult object with float(), which raises TypeError.
RenderDcfSection(inf, frame, default_assumptions) ==
    LET shares == inf.sharesOutstanding
        rates == DcfAssumptions(PhilosophyGet(default_assumptions, "discount_rate"),
                                PhilosophyGet(default_assumptions, "growth_rate"),
                                PhilosophyGet(default_assumptions, "terminal_growth_rate"),
                                PhilosophyGet(default_assumptions, "projection_years"))
        bound == Bound(shares)
        base_fair_value ==
            CalculateFairValueWith(frame, bound.net_debt, bound.shares_outstanding, None,
                                   [given |-> DOMAIN rates, values |-> rates])
        fair_value_range ==
            CalculateFairValueRange(frame, bound.net_debt, bound.shares_outstanding,
                                    rates, <<1, 50>>, <<1, 100>>)
        insufficient ==
            IF ~Truthy(shares) THEN TRUE
            ELSE IF frame = None THEN TRUE ELSE Empty(frame)
    IN  IF insufficient
        THEN [raised |-> "", shown |-> "Insufficient data to calculate fair value.",
              bound |-> None, base |-> None, range |-> None]
        ELSE IF base_fair_value.raised # ""
        THEN [raised |-> base_fair_value.raised, shown |-> "", bound |-> bound,
              base |-> None, range |-> None]
        ELSE IF base_fair_value.value = None
        THEN [raised |-> "",
              shown |-> "Fair Value calculation could not be completed due to missing data.",
              bound |-> bound, base |-> None, range |-> None]
        ELSE IF fair_value_range.raised # ""
        THEN [raised |-> fair_value_range.raised, shown |-> "", bound |-> bound,
              base |-> base_fair_value.value, range |-> None]
        ELSE [raised |-> "TypeError", shown |-> "", bound |-> bound,
              base |-> base_fair_value.value, range |-> fair_value_range.value]

(***************************************************************************)
(* DcfAssumptions.validate.                                                *)
(***************************************************************************)
RateLow == <<-1, 2>>
RateHigh == <<1, 2>>
MinProjectionYears == 1
MaxProjectionYears == 20

RateInRange(r) == FLe(RateLow, r) /\ FLe(r, RateHigh)

YearsInRange(n) == MinProjectionYears <= n /\ n <= MaxProjectionYears

\* Mutant: equal rates pass the relation check.
DiscountBelowTerminal(a) == FLt(a.discount_rate, a.terminal_growth_rate)

\* if self.discount_rate <= self.terminal_growth_rate: error
DiscountNotAboveTerminal(a) == FLe(a.discount_rate, a.terminal_growth_rate)

DiscountRateMsg == "Discount rate must be between -50% and 50%."
GrowthRateMsg == "Growth rate must be between -50% and 50%."
TerminalGrowthMsg == "Terminal growth must be between -50% and 50%."
ProjectionYearsMsg == "Projection years must be between 1 and 20."
RelationMsg == "Discount rate must be greater than terminal growth rate."

\* The errors list of validate, in the order of its five checks.
ValidationErrors(a) ==
    (IF ~RateInRange(a.discount_rate) THEN <<DiscountRateMsg>> ELSE <<>>)
    \o (IF ~RateInRange(a.growth_rate) THEN <<GrowthRateMsg>> ELSE <<>>)
    \o (IF ~RateInRange(a.terminal_growth_rate) THEN <<TerminalGrowthMsg>> ELSE <<>>)
    \o (IF ~YearsInRange(a.projection_years) THEN <<ProjectionYearsMsg>> ELSE <<>>)
    \o (IF DiscountNotAboveTerminal(a) THEN <<RelationMsg>> ELSE <<>>)

\* " ".join(errors)
RECURSIVE JoinSpace(_)
JoinSpace(errors) ==
    IF Len(errors) = 1 THEN errors[1]
    ELSE errors[1] \o " " \o JoinSpace(Tail(errors))

\* DcfAssumptions.validate: (True, None) or (False, message).
Validate(a) ==
    LET errors == ValidationErrors(a)
    IN  IF errors # <<>> THEN <<FALSE, Str(JoinSpace(errors))>> ELSE <<TRUE, None>>

(***************************************************************************)
(* utils/fundamentals.py.                                                  *)
(***************************************************************************)
BALANCE_SHEET_CASH_FIELDS == <<"Cash And Cash Equivalents", "Cash", "CashAndCashEquivalents">>
BALANCE_SHEET_TOTAL_DEBT_FIELDS == <<"Total Debt", "Net Debt">>
SHORT_TERM_DEBT_FIELDS == <<"Short Long Term Debt", "Short Term Debt", "Current Debt">>
LONG_TERM_DEBT_FIELDS == <<"Long Term Debt">>

\* The position of the column a label names, 0 when no column has it.
ColOf(frame, column_label) ==
    IF \E j \in 1..Len(frame.columns) : frame.columns[j] = column_label
    THEN CHOOSE j \in 1..Len(frame.columns) : frame.columns[j] = column_label
    ELSE 0

\* A selection that stops at the first label that parses.
LatestColumnIndexFirstParsed(parsed) ==
    IF \E j \in 1..Len(parsed) : parsed[j] # NaT
    THEN CHOOSE j \in 1..Len(parsed) :
             parsed[j] # NaT /\ \A k \in 1..(j - 1) : parsed[k] = NaT
    ELSE 1

\* The position _latest_column_info picks among the columns of a non-empty frame.
LatestColumnIndex(parsed) ==
    IF \E j \in 1..Len(parsed) : parsed[j] # NaT THEN IdxMax(parsed) ELSE 1

\* _latest_column_info: (column_label, as_of_str), (None, None) without a frame.
LatestColumnInfo(frame) ==
    IF frame = None THEN <<None, None>>
    ELSE IF Empty(frame) THEN <<None, None>>
    ELSE LET parsed == [j \in 1..Len(frame.columns) |-> ToDatetime(frame.columns[j])]
             latest_idx == LatestColumnIndex(parsed)
             column_label == frame.columns[latest_idx]
         IN  IF parsed[latest_idx] # NaT
             THEN <<column_label, Strftime(parsed[latest_idx])>>
             ELSE <<column_label, column_label>>

\* float(value): a number converts, None and a text raise and give None.
ToFloat(value) == IF Len(value) = 2 THEN value ELSE None

\* A lookup that takes a zero cell for a missing one.
ValueFromColumnZeroMissing(frame, label, column_label) ==
    IF frame = None THEN None
    ELSE IF Empty(frame) \/ column_label = None THEN None
    ELSE IF ~HasRow(frame, label) \/ ColOf(frame, column_label) = 0 THEN None
    ELSE IF frame.cells[RowOf(frame, label)][ColOf(frame, column_label)] = R(0) THEN None
    ELSE ToFloat(frame.cells[RowOf(frame, label)][ColOf(frame, column_label)])

\* _value_from_column
ValueFromColumn(frame, label, column_label) ==
    IF frame = None THEN None
    ELSE IF Empty(frame) \/ column_label = None THEN None
    ELSE IF ~HasRow(frame, label) \/ ColOf(frame, column_label) = 0 THEN None
    ELSE ToFloat(frame.cells[RowOf(frame, label)][ColOf(frame, column_label)])

\* A scan in which a later field of the list overrides an earlier one.
RECURSIVE FirstResolvedLaterWins(_, _, _, _)
FirstResolvedLaterWins(frame, fields, column_label, k) ==
    IF k > Len(fields) THEN <<None, None>>
    ELSE IF FirstResolvedLaterWins(frame, fields, column_label, k + 1)[1] # None
         THEN FirstResolvedLaterWins(frame, fields, column_label, k + 1)
         ELSE IF ValueFromColumn(frame, fields[k], column_label) # None
         THEN <<ValueFromColumn(frame, fields[k], column_label), Str(fields[k])>>
         ELSE <<None, None>>

\* The first field of a list, from position k on, whose value resolves: (value, field).
RECURSIVE FirstResolved(_, _, _, _)
FirstResolved(frame, fields, column_label, k) ==
    IF k > Len(fields) THEN <<None, None>>
    ELSE IF ValueFromColumn(frame, fields[k], column_label) # None
         THEN <<ValueFromColumn(frame, fields[k], column_label), Str(fields[k])>>
         ELSE FirstResolved(frame, fields, column_label, k + 1)

\* _resolve_cash
ResolveCash(frame, column_label) ==
    FirstResolved(frame, BALANCE_SHEET_CASH_FIELDS, column_label, 1)

\* long_term or 0
OrZero(x) == IF Truthy(x) THEN x ELSE R(0)

\* A resolution that sums the components even when neither resolved.
ResolveTotalDebtAlwaysSums(frame, column_label) ==
    LET direct == FirstResolved(frame, BALANCE_SHEET_TOTAL_DEBT_FIELDS, column_label, 1)
        long_term == FirstResolved(frame, LONG_TERM_DEBT_FIELDS, column_label, 1)[1]
        short_term == FirstResolved(frame, SHORT_TERM_DEBT_FIELDS, column_label, 1)[1]
    IN  IF direct[1] # None THEN direct
        ELSE <<FAdd(OrZero(long_term), OrZero(short_term)),
               Str("Long Term Debt + Short Term Debt")>>

\* _resolve_total_debt
ResolveTotalDebt(frame, column_label) ==
    LET direct == FirstResolved(frame, BALANCE_SHEET_TOTAL_DEBT_FIELDS, column_label, 1)
        long_term == FirstResolved(frame, LONG_TERM_DEBT_FIELDS, column_label, 1)[1]
        short_term == FirstResolved(frame, SHORT_TERM_DEBT_FIELDS, column_label, 1)[1]
    IN  IF direct[1] # None THEN direct
        ELSE IF long_term = None /\ short_term = None THEN <<None, None>>
        ELSE <<FAdd(OrZero(long_term), OrZero(short_term)),
               Str("Long Term Debt + Short Term Debt")>>

\* A share field that is a text: truthy, and no operand of > or <= with a number.
IsText(x) == Len(x) = 1

\* Lines 146-156 of extract_fundamentals raise TypeError when a text is compared
\* with 0: sharesOutstanding at line 148, or the implied count, once it was
\* taken at line 151, at line 153.
SharesRaise(inf) ==
    \/ IsText(inf.sharesOutstanding)
    \/ /\ ~(Truthy(inf.sharesOutstanding) /\ FGt(inf.sharesOutstanding, R(0)))
       /\ IsText(inf.impliedSharesOutstanding)

\* The share count and its source, lines 146-156 of extract_fundamentals.
ResolveShares(inf) ==
    LET first == inf.sharesOutstanding
        picked ==
            IF Truthy(first) /\ FGt(first, R(0)) THEN <<first, Str("sharesOutstanding")>>
            ELSE IF Truthy(inf.impliedSharesOutstanding)
            THEN <<inf.impliedSharesOutstanding, Str("impliedSharesOutstanding")>>
            ELSE <<first, None>>
    IN  IF ~Truthy(picked[1]) \/ FLe(picked[1], R(0)) THEN <<None, None>> ELSE picked

CashWarning == "Cash & equivalents missing; assuming 0."
DebtWarning == "Total debt missing; assuming 0."
SharesWarning == "Shares outstanding unavailable; per-share valuation disabled."
BalanceSheetWarning == "Balance sheet unavailable; debt and cash taken as 0."

\* sorted(set(note_tags)): the tags present, in alphabetical order.
TagOrder ==
    <<"ASSUMED_CASH_ZERO", "ASSUMED_DEBT_ZERO", "MISSING_SHARES", "NET_CASH",
      "NO_BALANCE_SHEET">>

RECURSIVE SortedTags(_, _)
SortedTags(tags, k) ==
    IF k > Len(TagOrder) THEN <<>>
    ELSE (IF TagOrder[k] \in tags THEN <<TagOrder[k]>> ELSE <<>>)
         \o SortedTags(tags, k + 1)

\* Net debt with the operands the other way round.
NetDebtOfCashMinusDebt(total_debt, cash) == FSub(cash, total_debt)

\* net_debt = total_debt - cash (line 144); both operands are numbers by then.
NetDebt(total_debt, cash) == FSub(total_debt, cash)

\* A test that takes a net debt of zero for net cash.
NetCashOrZero(nd) == FLe(nd, R(0))

\* net_debt is not None and net_debt < 0 (line 173).
NetCash(nd) == FLt(nd, R(0))

\* extract_fundamentals(info, balance_sheet), called when the clock reads utcnow,
\* when it returns.
ExtractFundamentals(inf, frame, utcnow) ==
    LET latest == LatestColumnInfo(frame)
        latest_column == latest[1]
        cash_found == ResolveCash(frame, latest_column)
        debt_found == ResolveTotalDebt(frame, latest_column)
        cash == IF cash_found[1] = None THEN R(0) ELSE cash_found[1]
        cash_source == IF cash_found[1] = None THEN None ELSE cash_found[2]
        total_debt == IF debt_found[1] = None THEN R(0) ELSE debt_found[1]
        debt_source == IF debt_found[1] = None THEN None ELSE debt_found[2]
        shares == ResolveShares(inf)
        no_sheet == IF frame = None THEN TRUE ELSE Empty(frame)
        balance_sheet_as_of == IF no_sheet THEN None ELSE latest[2]
        nd == NetDebt(total_debt, cash)
        warnings ==
            (IF cash_found[1] = None THEN <<CashWarning>> ELSE <<>>)
            \o (IF debt_found[1] = None THEN <<DebtWarning>> ELSE <<>>)
            \o (IF shares[1] = None THEN <<SharesWarning>> ELSE <<>>)
            \o (IF no_sheet THEN <<BalanceSheetWarning>> ELSE <<>>)
        tags ==
            (IF shares[1] = None THEN {"MISSING_SHARES"} ELSE {})
            \cup (IF cash_source = None THEN {"ASSUMED_CASH_ZERO"} ELSE {})
            \cup (IF debt_source = None THEN {"ASSUMED_DEBT_ZERO"} ELSE {})
            \cup (IF balance_sheet_as_of = None THEN {"NO_BALANCE_SHEET"} ELSE {})
            \cup (IF NetCash(nd) THEN {"NET_CASH"} ELSE {})
    IN  [cash_and_equivalents |-> cash,
         total_debt |-> total_debt,
         net_debt |-> nd,
         shares_outstanding |-> shares[1],
         balance_sheet_as_of |-> balance_sheet_as_of,
         pulled_at |-> utcnow,
         cash_source |-> cash_source,
         debt_source |-> debt_source,
         shares_source |-> shares[2],
         warnings |-> warnings,
         note_tags |-> SortedTags(tags, 1)]

\* The outcome of extract_fundamentals: the snapshot, or the exception of the
\* share comparison, which nothing catches.
ExtractOutcome(inf, frame, utcnow) ==
    IF SharesRaise(inf) THEN Raised("TypeError")
    ELSE Returned(ExtractFundamentals(inf, frame, utcnow))

(***************************************************************************)
(* analysis/quality_value_screener.py                                      *)
(***************************************************************************)
\* The default_assumptions of the Growth-at-a-Reasonable-Price philosophy.
ConfiguredAssumptions ==
    [min_revenue_growth |-> <<1, 10>>, min_roe |-> <<3, 25>>, value_weight |-> <<2, 5>>]

\* dict.get(key, default): the configured value, or the default when the
\* key is absent (None stands for an absent key).
Get(mapping, key, default) ==
    IF mapping[key] = None THEN default ELSE mapping[key]

MIN_ROE == Get(garp_assumptions, "min_roe", <<3, 25>>)
MIN_REVENUE_GROWTH == Get(garp_assumptions, "min_revenue_growth", <<1, 10>>)
VALUE_WEIGHT == Get(garp_assumptions, "value_weight", <<2, 5>>)
DEFAULT_OTHER_WEIGHTS == << <<3, 10>>, <<1, 5>>, <<1, 10>> >>
remaining_weight == PyMax(<<R(0), FSub(R(1), VALUE_WEIGHT)>>)
scale ==
    LET sum == FAdd(FAdd(DEFAULT_OTHER_WEIGHTS[1], DEFAULT_OTHER_WEIGHTS[2]),
                    DEFAULT_OTHER_WEIGHTS[3])
    IN  IF Truthy(sum) THEN FDiv(remaining_weight, sum) ELSE R(1)
QUALITY_WEIGHT == FMul(DEFAULT_OTHER_WEIGHTS[1], scale)
GROWTH_WEIGHT == FMul(DEFAULT_OTHER_WEIGHTS[2], scale)
STABILITY_WEIGHT == FMul(DEFAULT_OTHER_WEIGHTS[3], scale)

\* What the provider and the valuation engine yield for one ticker: whether
\* the fetch raises, the current price, whether the cash-flow table is empty,
\* the valuation (None, or its fair_value_per_share) and the raw metrics.
Feed(raises, current_price, cashflow_empty, valuation, roe, growth, d2e) ==
    [raises |-> raises, current_price |-> current_price,
     cashflow_empty |-> cashflow_empty, valuation |-> valuation,
     returnOnEquity |-> roe, revenueGrowth |-> growth, debtToEquity |-> d2e]

Valued(fair_value_per_share) == [fair_value_per_share |-> fair_value_per_share]

\* Lines 125-142: the tickers that add no row.
Skipped(feed) ==
    \/ feed.raises
    \/ feed.current_price = None
    \/ feed.cashflow_empty
    \/ feed.valuation = None

\* A score without the floor at 0.
ValueScoreUnfloored(fair_value, current_price) ==
    IF Truthy(fair_value) /\ FGt(fair_value, R(0))
    THEN <<FMul(FDiv(FSub(fair_value, current_price), current_price), R(100)),
           FDiv(FSub(fair_value, current_price), fair_value)>>
    ELSE <<None, R(0)>>

\* Lines 145-150: (discount_pct, value_score).
ValueScore(fair_value, current_price) ==
    IF Truthy(fair_value) /\ FGt(fair_value, R(0))
    THEN <<FMul(FDiv(FSub(fair_value, current_price), current_price), R(100)),
           PyMax(<<FDiv(FSub(fair_value, current_price), fair_value), R(0)>>)>>
    ELSE <<None, R(0)>>

\* Lines 153-159: a metric above 1 is a percentage.
PercentToFraction(x) ==
    IF x = None THEN None
    ELSE IF FGt(x, R(1)) THEN FDiv(x, R(100)) ELSE x

\* Lines 166-180: the row of a ticker that is not skipped.
ResultRow(i, feed) ==
    LET fair_value == feed.valuation.fair_value_per_share
        scored == ValueScore(fair_value, feed.current_price)
        roe == PercentToFraction(feed.returnOnEquity)
        rev_growth == PercentToFraction(feed.revenueGrowth)
    IN  [ticker |-> i,
         current_price |-> feed.current_price,
         fair_value |-> fair_value,
         discount_pct |-> scored[1],
         value_score |-> scored[2],
         raw_roe |-> roe,
         raw_revenue_growth |-> rev_growth,
         raw_debt_to_equity |-> feed.debtToEquity,
         meets_roe_target |-> IF roe = None THEN FALSE ELSE FLe(MIN_ROE, roe),
         meets_growth_target |->
             IF rev_growth = None THEN FALSE ELSE FLe(MIN_REVENUE_GROWTH, rev_growth)]

\* The analysis loop, lines 124-185, over the first k tickers.
RECURSIVE Results(_, _)
Results(feeds, k) ==
    IF k = 0 THEN <<>>
    ELSE IF Skipped(feeds[k]) THEN Results(feeds, k - 1)
    ELSE Append(Results(feeds, k - 1), ResultRow(k, feeds[k]))

\* A null or NaN entry of a column has no rank.
Ranked(x) == IF x = None THEN FALSE ELSE ~IsNaN(x)

\* The rank of a value with `less` smaller and `equal` equal entries (itself
\* one of them) under the default method of Series.rank, 'average'.
TieRank(less, equal) == Norm(2 * less + equal + 1, 2)

\* Series.rank(pct=True) at position i: the rank over the number of ranked
\* entries, NaN for an entry that has no rank.
RankPct(column, i) ==
    IF ~Ranked(column[i]) THEN NaN
    ELSE LET ranked == {j \in 1..Len(column) : Ranked(column[j])}
             less == Cardinality({j \in ranked : FLt(column[j], column[i])})
             equal == Cardinality({j \in ranked : column[j] = column[i]})
         IN  FDiv(TieRank(less, equal), R(Cardinality(ranked)))

\* A fill that scores a missing metric as the worst.
FillNaZero(x) == IF IsNaN(x) THEN R(0) ELSE x

\* fillna(0.5)
FillNa(x) == IF IsNaN(x) THEN <<1, 2>> ELSE x

\* Lines 193-205: the three percentile scores and the overall score of row i.
Scored(rows, i) ==
    LET quality == FillNa(RankPct([j \in 1..Len(rows) |-> rows[j].raw_roe], i))
        growth == FillNa(RankPct([j \in 1..Len(rows) |-> rows[j].raw_revenue_growth], i))
        stability ==
            FillNa(FSub(R(1),
                RankPct([j \in 1..Len(rows) |-> rows[j].raw_debt_to_equity], i)))
    IN  [row |-> rows[i],
         quality_score |-> quality,
         growth_score |-> growth,
         stability_score |-> stability,
         overall_score |->
             FAdd(FAdd(FAdd(FMul(VALUE_WEIGHT, rows[i].value_score),
                            FMul(QUALITY_WEIGHT, quality)),
                       FMul(GROWTH_WEIGHT, growth)),
                  FMul(STABILITY_WEIGHT, stability))]

\* sort_values("Overall Score", ascending=False): the first k rows in
\* descending order, rows of equal score in their order of arrival.
RECURSIVE SortValues(_, _)
SortValues(rows, k) ==
    IF k = 0 THEN <<>>
    ELSE LET sorted == SortValues(rows, k - 1)
             ahead == Cardinality({j \in 1..Len(sorted) :
                         ~FLt(sorted[j].overall_score, rows[k].overall_score)})
         IN  SubSeq(sorted, 1, ahead) \o <<rows[k]>> \o SubSeq(sorted, ahead + 1, Len(sorted))

\* Lines 187-207: None without rows, else the scored rows in descending order
\* of the overall score.
ScoreAndSort(rows) ==
    IF Len(rows) = 0 THEN Returned(None)
    ELSE CHOOSE r \in {Returned(SortValues(scored, Len(scored))) :
                         scored \in {[i \in 1..Len(rows) |-> Scored(rows, i)]}} : TRUE

\* analyze_quality_value_screener: None without tickers, else the table of
\* the rows the analysis loop collects.
AnalyzeQualityValueScreener(feeds) ==
    IF Len(feeds) = 0 THEN Returned(None)
    ELSE ScoreAndSort(Results(feeds, Len(feeds)))

(***************************************************************************)
(* The batch loops, one iteration at a time.                               *)
(***************************************************************************)
\* The state of a loop before its first iteration: st.progress(0).
LoopStart(op) ==
    [op |-> op, pc |-> "loop", i |-> 0, results |-> <<>>, visited |-> <<>>,
     progress |-> R(0)]

NoLoop == [LoopStart("") EXCEPT !.pc = "idle"]

\* An iteration of a loop whose except clause leaves the loop.
ScreenerIterationAborting(l, feeds) ==
    LET k == l.i + 1
    IN  IF feeds[k].raises
        THEN [l EXCEPT !.i = Len(feeds), !.visited = Append(@, k), !.progress = R(1)]
        ELSE [l EXCEPT !.i = k,
                       !.visited = Append(@, k),
                       !.results = IF Skipped(feeds[k]) THEN @
                                   ELSE Append(@, ResultRow(k, feeds[k])),
                       !.progress = Norm(k, Len(feeds))]

\* quality_value_screener.py, lines 124-185: the iteration at index l.i. The
\* finally clause sets the progress whatever the try block did.
ScreenerIteration(l, feeds) ==
    LET k == l.i + 1
    IN  [l EXCEPT !.i = k,
                  !.visited = Append(@, k),
                  !.results = IF Skipped(feeds[k]) THEN @
                              ELSE Append(@, ResultRow(k, feeds[k])),
                  !.progress = Norm(k, Len(feeds))]

\* sp500_deals.py, lines 74-87: the row of a ticker that is not skipped.
Sp500Row(i, feed) ==
    LET fair_value == feed.valuation.fair_value_per_share
    IN  [ticker |-> i,
         current_price |-> feed.current_price,
         fair_value |-> fair_value,
         discount_pct |->
             IF fair_value # None /\ Truthy(feed.current_price)
             THEN FMul(FDiv(FSub(fair_value, feed.current_price), feed.current_price),
                       R(100))
             ELSE NaN]

\* sp500_deals.py, lines 44-92: the iteration at index l.i. Every `continue`,
\* the one of the except clause included, jumps over the progress update.
Sp500Iteration(l, feeds) ==
    LET k == l.i + 1
    IN  IF Skipped(feeds[k])
        THEN [l EXCEPT !.i = k, !.visited = Append(@, k)]
        ELSE [l EXCEPT !.i = k,
                       !.visited = Append(@, k),
                       !.results = Append(@, Sp500Row(k, feeds[k])),
                       !.progress = Norm(k, Len(feeds))]

\* sort_values(by="Discount (%)", ascending=False): the first k rows in
\* descending order, NaN last, equal rows in their order of arrival.
RECURSIVE SortByDiscount(_, _)
SortByDiscount(rows, k) ==
    IF k = 0 THEN <<>>
    ELSE LET sorted == SortByDiscount(rows, k - 1)
             ahead == Cardinality({j \in 1..Len(sorted) :
                         \/ IsNaN(rows[k].discount_pct)
                         \/ /\ ~IsNaN(sorted[j].discount_pct)
                            /\ ~FLt(sorted[j].discount_pct, rows[k].discount_pct)})
         IN  SubSeq(sorted, 1, ahead) \o <<rows[k]>> \o SubSeq(sorted, ahead + 1, Len(sorted))

\* sp500_deals.py, lines 94-100
Sp500Table(rows) ==
    IF Len(rows) = 0 THEN Returned(None) ELSE Returned(SortByDiscount(rows, Len(rows)))

(***************************************************************************)
(* app.py: render_quality_value_screener                                   *)
(***************************************************************************)
\* rank(method='first', ascending=False): ties ranked in order of appearance.
RankFirst(column, i) ==
    1 + Cardinality({j \in 1..Len(column) :
            FGt(column[j], column[i]) \/ (column[j] = column[i] /\ j < i)})

\* rank(method='min', ascending=False).astype(int): one more than the number
\* of entries that are strictly higher.
RankMin(column, i) ==
    1 + Cardinality({j \in 1..Len(column) : FGt(column[j], column[i])})

\* The table the page displays: the screener's sorted table with the five
\* rank columns added; None when the screener returns nothing.
RenderQualityValueScreener(feeds) ==
    LET qv_df == AnalyzeQualityValueScreener(feeds).value
        n == Len(qv_df)
    IN  IF qv_df = None THEN Returned(None)
        ELSE Returned([i \in 1..n |->
                 [scores |-> qv_df[i],
                  value_rank |-> RankMin([j \in 1..n |-> qv_df[j].row.value_score], i),
                  quality_rank |-> RankMin([j \in 1..n |-> qv_df[j].quality_score], i),
                  growth_rank |-> RankMin([j \in 1..n |-> qv_df[j].growth_score], i),
                  stability_rank |-> RankMin([j \in 1..n |-> qv_df[j].stability_score], i),
                  overall_rank |-> RankMin([j \in 1..n |-> qv_df[j].overall_score], i)]])

(***************************************************************************)
(* Inputs.                                                                 *)
(***************************************************************************)
MaxCashflowCols == 2
MaxYears == 2

\* Sequences of distinct labels, at most n long.
RECURSIVE LabelSeqs(_, _)
LabelSeqs(labels, n) ==
    IF n = 0 THEN {<<>>}
    ELSE LET shorter == LabelSeqs(labels, n - 1)
         IN  shorter \cup
             {Append(q, l) : <<q, l>> \in
                 {<<q, l>> \in shorter \X labels :
                     /\ Len(q) = n - 1
                     /\ \A j \in 1..Len(q) : q[j] # l}}

CashflowLabels == {Iso(1), Iso(2), Text("TTM")}

FcfBases == {-100, 0, 100}

\* A cash-flow table whose Free Cash Flow cell in column j is base + 50 * (j - 1),
\* so that every column holds another value.
CashflowFrame(columns, index, base, numpy) ==
    [columns |-> columns, index |-> index, numpy |-> numpy,
     cells |-> [r \in 1..Len(index) |->
                  [j \in 1..Len(columns) |->
                      IF index[r] = "Free Cash Flow"
                      THEN R(base + 50 * (j - 1))
                      ELSE R(7)]]]

CashflowFrames ==
    {None}
    \cup {CashflowFrame(c, <<"Operating Cash Flow", "Free Cash Flow">>, b, np) :
            <<c, b, np>> \in LabelSeqs(CashflowLabels, MaxCashflowCols)
                             \X FcfBases \X BOOLEAN}
    \cup {CashflowFrame(c, i, 0, TRUE) :
            <<c, i>> \in LabelSeqs(CashflowLabels, MaxCashflowCols)
                         \X {<<>>, <<"Operating Cash Flow">>}}

DiscountRates == {R(0), <<1, 10>>, <<1, 5>>}
GrowthRates == {R(0), <<1, 10>>}
TerminalRates == {R(0), <<1, 10>>}

AssumptionSets ==
    {DcfAssumptions(d, g, tg, n) :
        <<d, g, tg, n>> \in DiscountRates \X GrowthRates \X TerminalRates \X (0..MaxYears)}

NetDebts == {None, R(-50), R(50)}
ShareCounts == {None, R(-2), R(0), R(2)}
Variations == {[discount |-> <<1, 10>>, growth |-> <<1, 10>>]}

NoCall == [op |-> "", args |-> None, outcome |-> None]

NoInfo == [sharesOutstanding |-> None, impliedSharesOutstanding |-> None]

\* The single-ticker page: a ticker or none, a timeframe choice, and what the
\* cached and the uncached pull yield.
Pulls ==
    {Pulled(TRUE, <<>>, FALSE, FALSE), Pulled(FALSE, <<>>, FALSE, FALSE)}
    \cup {Pulled(FALSE, <<"info", "history", "cashflow", "balance_sheet">>, i, h) :
            <<i, h>> \in BOOLEAN \X BOOLEAN}

Bundles ==
    {[ticker |-> t, timeframe_option |-> o, cached |-> c, fresh |-> f] :
        <<t, o, c, f>> \in {"", "AAPL"} \X {"Intraday (1D)", "1 Year", "10 Year", "Max"}
                            \X Pulls \X Pulls}

NoBundle ==
    [ticker |-> "", timeframe_option |-> "1 Year",
     cached |-> Pulled(FALSE, <<>>, FALSE, FALSE), fresh |-> Pulled(FALSE, <<>>, FALSE, FALSE)]

InitBundle ==
    /\ tickers = <<>>
    /\ loop = NoLoop
    /\ bundle \in Bundles
    /\ keywords = NoKeywords
    /\ garp_assumptions = ConfiguredAssumptions
    /\ cashflow = None
    /\ balance_sheet = None
    /\ info = NoInfo
    /\ net_debt = None
    /\ shares_outstanding = None
    /\ assumptions = DcfAssumptions(<<1, 10>>, <<3, 100>>, <<1, 50>>, 5)
    /\ variation \in {v \in Variations : v.discount = v.growth}
    /\ now = 0
    /\ last = NoCall
    /\ prev = NoCall

Init ==
    /\ tickers = <<>>
    /\ loop = NoLoop
    /\ bundle = NoBundle
    /\ keywords = NoKeywords
    /\ garp_assumptions = ConfiguredAssumptions
    /\ cashflow \in CashflowFrames
    /\ balance_sheet = None
    /\ info = NoInfo
    /\ net_debt \in NetDebts
    /\ shares_outstanding \in ShareCounts
    /\ assumptions \in AssumptionSets
    /\ variation \in Variations
    /\ now = 0
    /\ last = NoCall
    /\ prev = NoCall

\* The inputs of the range function: tables of one column, and a horizon of
\* at least one year.
RangeFrames ==
    {f \in CashflowFrames : IF f = None THEN TRUE ELSE f.columns = <<Iso(1)>>}

InitRange ==
    /\ tickers = <<>>
    /\ loop = NoLoop
    /\ bundle = NoBundle
    /\ keywords = NoKeywords
    /\ garp_assumptions = ConfiguredAssumptions
    /\ cashflow \in RangeFrames
    /\ balance_sheet = None
    /\ info = NoInfo
    /\ net_debt \in {None, R(50)}
    /\ shares_outstanding \in ShareCounts
    /\ assumptions \in {a \in AssumptionSets : a.projection_years >= 1}
    /\ variation \in Variations
    /\ now = 0
    /\ last = NoCall
    /\ prev = NoCall

\* The inputs of the growth comparison: one table, growth rates across the
\* validated range and two below -100%.
MonoGrowthRates == {R(-3), R(-2), <<-1, 2>>, <<-1, 10>>, R(0), <<1, 10>>, <<1, 2>>}

InitMono ==
    /\ tickers = <<>>
    /\ loop = NoLoop
    /\ bundle = NoBundle
    /\ keywords = NoKeywords
    /\ garp_assumptions = ConfiguredAssumptions
    /\ cashflow \in {CashflowFrame(<<Iso(1)>>, <<"Free Cash Flow">>, b, TRUE) : b \in FcfBases}
    /\ balance_sheet = None
    /\ info = NoInfo
    /\ net_debt = R(0)
    /\ shares_outstanding = R(2)
    /\ assumptions \in
         {DcfAssumptions(d, g, tg, n) :
            <<d, g, tg, n>> \in DiscountRates \X MonoGrowthRates \X TerminalRates
                               \X (1..MaxYears)}
    /\ variation \in Variations
    /\ now = 0
    /\ last = NoCall
    /\ prev = NoCall

\* The inputs of validate: rates and horizons on both sides of every limit.
ValidateRates == {<<-3, 5>>, <<-1, 2>>, R(0), <<1, 50>>, <<1, 2>>, <<3, 5>>}
ValidateYears == {0, MinProjectionYears, 5, MaxProjectionYears, MaxProjectionYears + 1}

InitValidate ==
    /\ tickers = <<>>
    /\ loop = NoLoop
    /\ bundle = NoBundle
    /\ keywords = NoKeywords
    /\ garp_assumptions = ConfiguredAssumptions
    /\ cashflow = None
    /\ balance_sheet = None
    /\ info = NoInfo
    /\ net_debt = None
    /\ shares_outstanding = None
    /\ assumptions \in
         {DcfAssumptions(d, g, tg, n) :
            <<d, g, tg, n>> \in ValidateRates \X ValidateRates \X ValidateRates
                               \X ValidateYears}
    /\ variation \in Variations
    /\ now = 0
    /\ last = NoCall
    /\ prev = NoCall

\* The inputs of extract_fundamentals.
MaxBalanceCols == 3
MaxClock == 1

BalanceLabels == {Iso(1), Iso(2), Ts(2), Text("FY2024")}

BalanceIndexes ==
    {<<>>,
     <<"Cash And Cash Equivalents", "Short Long Term Debt", "Long Term Debt">>,
     <<"Total Debt", "Cash">>,
     <<"Net Debt", "CashAndCashEquivalents", "Cash">>,
     <<"Current Debt", "Short Term Debt">>,
     <<"Cash", "CashAndCashEquivalents", "Total Debt">>,
     <<"Short Term Debt", "Long Term Debt">>,
     <<"Net Debt", "Total Debt", "Long Term Debt">>,
     <<"Total Assets">>}

CellPatterns == {"by_column", "zero", "text", "nan", "first_row_text"}

\* A balance sheet whose cells follow a pattern: another number in every cell,
\* zero everywhere, a text that is no number everywhere, NaN everywhere, or a
\* text in the first row and another number in every other cell.
BalanceFrame(columns, index, pattern) ==
    [columns |-> columns, index |-> index, numpy |-> TRUE,
     cells |-> [r \in 1..Len(index) |->
                  [j \in 1..Len(columns) |->
                      IF pattern = "by_column" THEN R(10 * j + r)
                      ELSE IF pattern = "zero" THEN R(0)
                      ELSE IF pattern = "nan" THEN NaN
                      ELSE IF pattern = "first_row_text" /\ r > 1 THEN R(10 * j + r)
                      ELSE Str("n/a")]]]

BalanceFrames ==
    {None}
    \cup {BalanceFrame(c, i, pt) :
            <<c, i, pt>> \in LabelSeqs(BalanceLabels, MaxBalanceCols)
                             \X BalanceIndexes \X CellPatterns}

ShareFields == {None, R(-3), R(0), R(4), NaN, Str("n/a")}

Infos ==
    {[sharesOutstanding |-> a, impliedSharesOutstanding |-> b] :
        <<a, b>> \in ShareFields \X ShareFields}

\* The share fields that go with every balance sheet, and the balance sheets
\* that go with every pair of share fields.
FundInfos ==
    {NoInfo, [sharesOutstanding |-> R(4), impliedSharesOutstanding |-> None]}

ShareFrames ==
    {None,
     BalanceFrame(<<Iso(1)>>, <<"Total Debt", "Cash">>, "by_column"),
     BalanceFrame(<<Iso(1)>>, <<"Total Debt", "Cash">>, "zero")}

InitFund ==
    /\ tickers = <<>>
    /\ loop = NoLoop
    /\ bundle = NoBundle
    /\ keywords = NoKeywords
    /\ garp_assumptions = ConfiguredAssumptions
    /\ cashflow = None
    /\ \/ balance_sheet \in BalanceFrames /\ info \in FundInfos
       \/ balance_sheet \in ShareFrames /\ info \in Infos
    /\ net_debt = None
    /\ shares_outstanding = None
    /\ assumptions = DcfAssumptions(<<1, 10>>, <<3, 100>>, <<1, 50>>, 5)
    /\ variation \in Variations
    /\ now = 0
    /\ last = NoCall
    /\ prev = NoCall

\* The screened universe: up to MaxTickers tickers, each with one of a few
\* feeds. Raw metrics come as fractions or as percentages, with ties between
\* tickers and with gaps.
MaxTickers == 3

Metrics ==
    {<<None, None, None>>,
     <<<<1, 10>>, <<1, 10>>, R(50)>>,
     <<<<1, 10>>, <<1, 5>>, R(150)>>,
     <<<<1, 5>>, <<1, 10>>, R(50)>>,
     <<R(15), R(20), None>>}

TickerFeeds ==
    {Feed(FALSE, R(10), FALSE, Valued(R(20)), m[1], m[2], m[3]) : m \in Metrics}
    \cup {Feed(FALSE, R(10), FALSE, Valued(None), <<1, 5>>, <<1, 5>>, R(150)),
          Feed(FALSE, R(10), FALSE, Valued(R(5)), <<1, 10>>, <<1, 10>>, R(50)),
          Feed(TRUE, None, TRUE, None, None, None, None),
          Feed(FALSE, None, FALSE, Valued(R(20)), <<1, 5>>, <<1, 5>>, R(50)),
          Feed(FALSE, R(10), TRUE, None, <<1, 5>>, <<1, 5>>, R(50)),
          Feed(FALSE, R(10), FALSE, None, <<1, 5>>, <<1, 5>>, R(50))}

RECURSIVE FeedSeqs(_)
FeedSeqs(n) ==
    IF n = 0 THEN {<<>>}
    ELSE FeedSeqs(n - 1) \cup
         {Append(q, f) : <<q, f>> \in {q \in FeedSeqs(n - 1) : Len(q) = n - 1} \X TickerFeeds}

\* The assumptions the philosophy table configures, and the same mapping
\* under other value weights (None: the key is absent). Universes of at most
\* MaxReweighted tickers are screened under each of them.
MaxReweighted == 1

GarpAssumptionSets ==
    {[ConfiguredAssumptions EXCEPT !.value_weight = w] :
        w \in {None, R(0), <<1, 4>>, <<2, 5>>, R(1), <<3, 2>>, <<-1, 5>>}}

InitScreen ==
    /\ tickers \in FeedSeqs(MaxTickers)
    /\ loop = NoLoop
    /\ bundle = NoBundle
    /\ keywords = NoKeywords
    /\ garp_assumptions \in
            IF Len(tickers) <= MaxReweighted THEN GarpAssumptionSets
            ELSE {ConfiguredAssumptions}
    /\ cashflow = None
    /\ balance_sheet = None
    /\ info = NoInfo
    /\ net_debt = None
    /\ shares_outstanding = None
    /\ assumptions = DcfAssumptions(<<1, 10>>, <<3, 100>>, <<1, 50>>, 5)
    /\ variation \in Variations
    /\ now = 0
    /\ last = NoCall
    /\ prev = NoCall

\* The calls of calculate_fair_value with or without an assumptions object
\* and with or without keyword rates. Exact arithmetic on a horizon above
\* MaxYears leaves the integer range, so a call resolves to such a horizon
\* only on a table that yields no free cash flow.
AssumptionObjects ==
    {None, Defaults,
     DcfAssumptions(<<1, 10>>, <<3, 100>>, <<1, 50>>, 2),
     DcfAssumptions(<<2, 25>>, <<1, 20>>, <<3, 100>>, 2)}

RateNames == {"discount_rate", "growth_rate", "terminal_growth_rate", "projection_years"}

KeywordSets ==
    {NoKeywords,
     Keywords({"discount_rate"}, [KeywordDefaults EXCEPT !.discount_rate = <<1, 5>>]),
     Keywords(RateNames, DcfAssumptions(<<1, 10>>, <<3, 100>>, <<1, 50>>, 2)),
     Keywords(RateNames, DcfAssumptions(<<2, 25>>, <<1, 20>>, <<3, 100>>, 2))}

Evaluable(frame, a, kw) ==
    \/ LatestFreeCashFlow(frame).raised # ""
    \/ ResolveAssumptions(a, kw).projection_years <= MaxYears

InitAssume ==
    /\ tickers = <<>>
    /\ loop = NoLoop
    /\ bundle = NoBundle
    /\ garp_assumptions = ConfiguredAssumptions
    /\ cashflow \in RangeFrames
    /\ balance_sheet = None
    /\ info = NoInfo
    /\ net_debt = R(50)
    /\ shares_outstanding \in {None, R(2)}
    /\ assumptions \in AssumptionObjects
    /\ keywords \in KeywordSets
    /\ Evaluable(cashflow, assumptions, keywords)
    /\ variation \in Variations
    /\ now = 0
    /\ last = NoCall
    /\ prev = NoCall

\* The tables both column selections are applied to: the cash-flow tables and
\* tables with up to MaxBalanceCols columns, with and without rows.
InitLatest ==
    /\ tickers = <<>>
    /\ loop = NoLoop
    /\ bundle = NoBundle
    /\ keywords = NoKeywords
    /\ garp_assumptions = ConfiguredAssumptions
    /\ cashflow \in CashflowFrames \cup
                    {BalanceFrame(c, i, "by_column") :
                        <<c, i>> \in LabelSeqs(BalanceLabels, MaxBalanceCols)
                                     \X {<<>>, <<"Free Cash Flow">>}}
    /\ balance_sheet = None
    /\ info = NoInfo
    /\ net_debt = None
    /\ shares_outstanding = None
    /\ assumptions = Defaults
    /\ variation \in Variations
    /\ now = 0
    /\ last = NoCall
    /\ prev = NoCall

\* The single-ticker page: a share count, a cash-flow table and the
\* default_assumptions of a philosophy, with or without the four rates. A
\* horizon above MaxYears meets only tables that yield no free cash flow.
PhilosophySets ==
    {NoKeywords,
     Keywords(RateNames, Defaults),
     Keywords(RateNames, DcfAssumptions(<<1, 10>>, <<3, 100>>, <<1, 50>>, 2)),
     Keywords(RateNames, DcfAssumptions(<<1, 5>>, <<1, 10>>, R(0), 1))}

InitDcf ==
    /\ tickers = <<>>
    /\ loop = NoLoop
    /\ bundle = NoBundle
    /\ keywords \in PhilosophySets
    /\ garp_assumptions = ConfiguredAssumptions
    /\ cashflow \in CashflowFrames
    /\ \/ LatestFreeCashFlow(cashflow).raised # ""
       \/ PhilosophyGet(keywords, "projection_years") <= MaxYears
    /\ balance_sheet = None
    /\ info \in {[NoInfo EXCEPT !.sharesOutstanding = n] : n \in {None, R(0), R(4), R(-3)}}
    /\ net_debt = None
    /\ shares_outstanding = None
    /\ assumptions = Defaults
    /\ variation \in Variations
    /\ now = 0
    /\ last = NoCall
    /\ prev = NoCall

\* The universes of the batch loops: one feed of every outcome of an
\* iteration, and valued tickers whose fair value is above, at or below the
\* price, zero, negative or NaN, at a positive, zero or negative price.
BatchFeeds ==
    {f \in TickerFeeds : f.revenueGrowth \in {None, <<1, 5>>}}
    \cup {Feed(FALSE, R(10), FALSE, Valued(fv), None, None, None) :
            fv \in {R(10), R(5), R(0), R(-5), NaN}}
    \cup {Feed(FALSE, p, FALSE, Valued(R(20)), None, None, None) : p \in {R(0), R(-10)}}

RECURSIVE BatchSeqs(_)
BatchSeqs(n) ==
    IF n = 0 THEN {<<>>}
    ELSE BatchSeqs(n - 1) \cup
         {Append(q, f) : <<q, f>> \in {q \in BatchSeqs(n - 1) : Len(q) = n - 1} \X BatchFeeds}

InitBatch ==
    /\ tickers \in BatchSeqs(MaxTickers)
    /\ loop = NoLoop
    /\ bundle = NoBundle
    /\ keywords = NoKeywords
    /\ garp_assumptions = ConfiguredAssumptions
    /\ cashflow = None
    /\ balance_sheet = None
    /\ info = NoInfo
    /\ net_debt = None
    /\ shares_outstanding = None
    /\ assumptions = DcfAssumptions(<<1, 10>>, <<3, 100>>, <<1, 50>>, 5)
    /\ variation \in {v \in Variations : v.discount = v.growth}
    /\ now = 0
    /\ last = NoCall
    /\ prev = NoCall

(***************************************************************************)
(* Operations.                                                             *)
(***************************************************************************)
Provided ==
    <<cashflow, balance_sheet, info, net_debt, shares_outstanding, variation, tickers,
      keywords, bundle, garp_assumptions>>

Inputs == <<Provided, loop>>

\* calculate_fair_value(cashflow, net_debt, shares_outstanding, assumptions)
CallCalculateFairValue ==
    /\ last' = [op |-> "calculate_fair_value", args |-> assumptions,
                outcome |-> CalculateFairValue(cashflow, net_debt,
                                               shares_outstanding, assumptions)]
    /\ UNCHANGED <<Inputs, assumptions, now, prev>>

\* calculate_fair_value_range(cashflow, net_debt, shares_outstanding, assumptions,
\*                            discount_rate_variation, growth_rate_variation)
CallCalculateFairValueRange ==
    /\ last' = [op |-> "calculate_fair_value_range", args |-> assumptions,
                outcome |-> CalculateFairValueRange(cashflow, net_debt,
                                shares_outstanding, assumptions,
                                variation.discount, variation.growth)]
    /\ UNCHANGED <<Inputs, assumptions, now, prev>>

\* assumptions.validate()
CallValidate ==
    /\ last' = [op |-> "validate", args |-> assumptions,
                outcome |-> Returned(Validate(assumptions))]
    /\ UNCHANGED <<Inputs, assumptions, now, prev>>

\* The caller builds another DcfAssumptions that differs in its growth rate;
\* the call made so far is kept for comparison.
ChangeGrowth ==
    /\ last.op = "calculate_fair_value"
    /\ prev = NoCall
    /\ \E g \in MonoGrowthRates :
         /\ g # assumptions.growth_rate
         /\ assumptions' = [assumptions EXCEPT !.growth_rate = g]
    /\ prev' = last
    /\ last' = NoCall
    /\ UNCHANGED <<Inputs, now>>

\* extract_fundamentals(info, balance_sheet)
CallExtractFundamentals ==
    /\ last' = [op |-> "extract_fundamentals", args |-> None,
                outcome |-> ExtractOutcome(info, balance_sheet, now)]
    /\ prev' = last
    /\ UNCHANGED <<Inputs, assumptions, now>>

\* Time passes between two calls.
Tick ==
    /\ now < MaxClock
    /\ now' = now + 1
    /\ UNCHANGED <<Inputs, assumptions, last, prev>>

Next == CallCalculateFairValue

Spec == Init /\ [][Next]_vars

NextRange == CallCalculateFairValueRange

SpecRange == InitRange /\ [][NextRange]_vars

NextMono == CallCalculateFairValue \/ ChangeGrowth

SpecMono == InitMono /\ [][NextMono]_vars

NextValidate == CallValidate

SpecValidate == InitValidate /\ [][NextValidate]_vars

NextFund == CallExtractFundamentals \/ Tick

SpecFund == InitFund /\ [][NextFund]_vars

\* analyze_quality_value_screener()
CallAnalyzeQualityValueScreener ==
    /\ last' = [op |-> "analyze_quality_value_screener", args |-> None,
                outcome |-> AnalyzeQualityValueScreener(tickers)]
    /\ UNCHANGED <<Inputs, assumptions, now, prev>>

\* single_stock_analysis(philosophy, mode_description)
CallSingleStockAnalysis ==
    /\ last' = [op |-> "single_stock_analysis", args |-> None,
                outcome |-> SingleStockAnalysis(bundle)]
    /\ UNCHANGED <<Inputs, assumptions, now, prev>>

NextBundle == CallSingleStockAnalysis

SpecBundle == InitBundle /\ [][NextBundle]_vars

\* render_dcf_section(info, cashflow, philosophy)
CallRenderDcfSection ==
    /\ last' = [op |-> "render_dcf_section", args |-> None,
                outcome |-> RenderDcfSection(info, cashflow, keywords)]
    /\ UNCHANGED <<Inputs, assumptions, now, prev>>

NextDcf == CallRenderDcfSection

SpecDcf == InitDcf /\ [][NextDcf]_vars

\* _latest_period_column(cashflow) and _latest_column_info(cashflow)
CallLatestColumns ==
    /\ last' = [op |-> "_latest_period_column", args |-> None,
                outcome |-> Returned([period |-> LatestPeriodLabel(cashflow),
                                      info |-> LatestColumnInfo(cashflow)])]
    /\ UNCHANGED <<Inputs, assumptions, now, prev>>

NextLatest == CallLatestColumns

SpecLatest == InitLatest /\ [][NextLatest]_vars

\* calculate_fair_value(cashflow, net_debt, shares_outstanding, assumptions, **keywords)
CallWithKeywords ==
    /\ prev' = last
    /\ last' = [op |-> "calculate_fair_value",
                args |-> [assumptions |-> assumptions, keywords |-> keywords],
                outcome |-> CalculateFairValueWith(cashflow, net_debt, shares_outstanding,
                                                   assumptions, keywords)]
    /\ UNCHANGED <<Inputs, assumptions, now>>

\* The caller picks other assumptions and keyword rates for its next call.
ChangeArguments ==
    /\ assumptions' \in AssumptionObjects
    /\ keywords' \in KeywordSets
    /\ Evaluable(cashflow, assumptions', keywords')
    /\ UNCHANGED <<cashflow, balance_sheet, info, net_debt, shares_outstanding, variation,
                   tickers, garp_assumptions, loop, bundle, now, last, prev>>

NextAssume ==
    \/ CallWithKeywords
    \/ ChangeArguments

SpecAssume == InitAssume /\ [][NextAssume]_vars

\* analyze_quality_value_screener() up to its loop: no loop without tickers.
StartScreener ==
    /\ loop.pc = "idle"
    /\ IF Len(tickers) = 0
       THEN /\ loop' = [NoLoop EXCEPT !.pc = "done"]
            /\ last' = [op |-> "analyze_quality_value_screener", args |-> None,
                        outcome |-> Returned(None)]
       ELSE /\ loop' = LoopStart("analyze_quality_value_screener")
            /\ UNCHANGED last
    /\ UNCHANGED <<Provided, assumptions, now, prev>>

StepScreener ==
    /\ loop.pc = "loop"
    /\ loop.op = "analyze_quality_value_screener"
    /\ loop.i < Len(tickers)
    /\ loop' = ScreenerIteration(loop, tickers)
    /\ UNCHANGED <<Provided, assumptions, now, last, prev>>

FinishScreener ==
    /\ loop.pc = "loop"
    /\ loop.op = "analyze_quality_value_screener"
    /\ loop.i >= Len(tickers)
    /\ loop' = [loop EXCEPT !.pc = "done"]
    /\ last' = [op |-> loop.op, args |-> None, outcome |-> ScoreAndSort(loop.results)]
    /\ UNCHANGED <<Provided, assumptions, now, prev>>

\* analyze_sp500_deals() up to its loop
StartSp500 ==
    /\ loop.pc = "idle"
    /\ loop' = LoopStart("analyze_sp500_deals")
    /\ UNCHANGED <<Provided, assumptions, now, last, prev>>

StepSp500 ==
    /\ loop.pc = "loop"
    /\ loop.op = "analyze_sp500_deals"
    /\ loop.i < Len(tickers)
    /\ loop' = Sp500Iteration(loop, tickers)
    /\ UNCHANGED <<Provided, assumptions, now, last, prev>>

FinishSp500 ==
    /\ loop.pc = "loop"
    /\ loop.op = "analyze_sp500_deals"
    /\ loop.i >= Len(tickers)
    /\ loop' = [loop EXCEPT !.pc = "done"]
    /\ last' = [op |-> loop.op, args |-> None, outcome |-> Sp500Table(loop.results)]
    /\ UNCHANGED <<Provided, assumptions, now, prev>>

NextBatch ==
    \/ StartScreener
    \/ StepScreener
    \/ FinishScreener
    \/ StartSp500
    \/ StepSp500
    \/ FinishSp500

SpecBatch == InitBatch /\ [][NextBatch]_vars

\* render_quality_value_screener(philosophy_name, mode_description)
CallRenderQualityValueScreener ==
    /\ last' = [op |-> "render_quality_value_screener", args |-> None,
                outcome |-> RenderQualityValueScreener(tickers)]
    /\ UNCHANGED <<Inputs, assumptions, now, prev>>

NextRender == CallRenderQualityValueScreener

SpecRender == InitScreen /\ [][NextRender]_vars

NextScreen == CallAnalyzeQualityValueScreener

SpecScreen == InitScreen /\ [][NextScreen]_vars

(***************************************************************************)
(* Properties of calculate_fair_value (specification Spec).                *)
(***************************************************************************)
ValuationReturned ==
    /\ last.op = "calculate_fair_value"
    /\ last.outcome.raised = ""
    /\ last.outcome.value # None

SharesNotPositive == shares_outstanding = None \/ FLe(shares_outstanding, R(0))

\* C1 (as claimed): whenever calculate_fair_value returns a result,
\* fair_value_per_share is null if and only if shares_outstanding is null or
\* <= 0, and otherwise equals equity_value / shares_outstanding.
C1_PerShareNullIffSharesNotPositive ==
    ValuationReturned =>
        LET r == last.outcome.value
        IN  /\ (r.fair_value_per_share = None) <=> SharesNotPositive
            /\ ~SharesNotPositive =>
                 r.fair_value_per_share = FDiv(r.equity_value, shares_outstanding)

\* C2 (as claimed): equity_value = enterprise_value - net_debt when net_debt is
\* known and = enterprise_value otherwise; hence equity_value > enterprise_value
\* whenever net_debt < 0 and equity_value < enterprise_value whenever net_debt > 0.
C2_EquityOrderedByNetDebt ==
    ValuationReturned =>
        LET r == last.outcome.value
        IN  /\ net_debt # None => r.equity_value = FSub(r.enterprise_value, net_debt)
            /\ net_debt = None => r.equity_value = r.enterprise_value
            /\ (net_debt # None /\ FLt(net_debt, R(0)))
                 => FGt(r.equity_value, r.enterprise_value)
            /\ (net_debt # None /\ FGt(net_debt, R(0)))
                 => FLt(r.equity_value, r.enterprise_value)

\* C2 (amended): the two equalities hold for every result; the two strict
\* comparisons hold for every result whose enterprise_value is finite (an
\* infinite or NaN enterprise value absorbs the net debt).
C2_EquityOrderedWhenFinite ==
    ValuationReturned =>
        LET r == last.outcome.value
        IN  /\ net_debt # None => r.equity_value = FSub(r.enterprise_value, net_debt)
            /\ net_debt = None => r.equity_value = r.enterprise_value
            /\ (net_debt # None /\ FLt(net_debt, R(0)) /\ IsFinite(r.enterprise_value))
                 => FGt(r.equity_value, r.enterprise_value)
            /\ (net_debt # None /\ FGt(net_debt, R(0)) /\ IsFinite(r.enterprise_value))
                 => FLt(r.equity_value, r.enterprise_value)

C2_Witness ==
    /\ ValuationReturned
    /\ net_debt = R(-50)
    /\ IsFinite(last.outcome.value.enterprise_value)
    /\ FGt(last.outcome.value.equity_value, last.outcome.value.enterprise_value)

\* The claim's words for a table whose latest period or Free Cash Flow row is
\* missing: no table, no columns, no rows, or no such row.
FcfUnavailable ==
    IF cashflow = None THEN TRUE
    ELSE \/ Len(cashflow.columns) = 0
         \/ Len(cashflow.index) = 0
         \/ \A r \in 1..Len(cashflow.index) : cashflow.index[r] # "Free Cash Flow"

\* C3: calculate_fair_value returns null and raises nothing whenever the latest
\* period cannot be determined or the table has no Free Cash Flow row; in every
\* other case, with assumptions that pass validate(), it returns a result.
C3_NullExactlyWhenFcfUnavailable ==
    last.op = "calculate_fair_value" =>
        /\ FcfUnavailable => last.outcome = Returned(None)
        /\ (~FcfUnavailable /\ Validate(last.args)[1])
             => (last.outcome.raised = "" /\ last.outcome.value # None)

C3_Witness ==
    /\ last.op = "calculate_fair_value"
    /\ cashflow # None
    /\ Len(cashflow.columns) = 2
    /\ cashflow.index = <<"Operating Cash Flow">>
    /\ last.outcome = Returned(None)

\* The enterprise value the claim writes out for fcf_0 and (d, g, tg, n).
RECURSIVE ClaimedPvSum(_, _, _, _)
ClaimedPvSum(fcf0, g, d, t) ==
    IF t = 0 THEN R(0)
    ELSE FAdd(ClaimedPvSum(fcf0, g, d, t - 1),
              FDiv(FMul(fcf0, FPow(FAdd(R(1), g), t)), FPow(FAdd(R(1), d), t)))

ClaimedEnterpriseValue(fcf0, d, g, tg, n) ==
    FAdd(ClaimedPvSum(fcf0, g, d, n),
         FDiv(FDiv(FMul(FMul(fcf0, FPow(FAdd(R(1), g), n)), FAdd(R(1), tg)),
                   FSub(d, tg)),
              FPow(FAdd(R(1), d), n)))

\* C4: for latest free cash flow fcf_0 and assumptions (d, g, tg, n) the result
\* has enterprise_value = sum over t = 1..n of fcf_0*(1+g)^t / (1+d)^t plus
\* [fcf_0*(1+g)^n * (1+tg) / (d - tg)] / (1+d)^n.
C4_EnterpriseValueFormula ==
    ValuationReturned =>
        last.outcome.value.enterprise_value =
            ClaimedEnterpriseValue(LatestFreeCashFlow(cashflow).value,
                                   last.args.discount_rate, last.args.growth_rate,
                                   last.args.terminal_growth_rate,
                                   last.args.projection_years)

C4_Witness ==
    /\ ValuationReturned
    /\ last.args.projection_years = 2
    /\ last.args.growth_rate # R(0)
    /\ IsFinite(last.outcome.value.enterprise_value)
    /\ last.outcome.value.enterprise_value # R(0)

LatestFcfPositive ==
    /\ LatestFreeCashFlow(cashflow).raised = ""
    /\ FGt(LatestFreeCashFlow(cashflow).value, R(0))

\* C5: for assumptions that pass validate() and a table whose latest Free Cash
\* Flow is positive, calculate_fair_value returns a result with
\* enterprise_value > 0.
C5_PositiveEnterpriseValue ==
    (last.op = "calculate_fair_value" /\ Validate(last.args)[1] /\ LatestFcfPositive)
        => /\ last.outcome.raised = ""
           /\ last.outcome.value # None
           /\ FGt(last.outcome.value.enterprise_value, R(0))

C5_Witness ==
    /\ last.op = "calculate_fair_value"
    /\ Validate(last.args)[1]
    /\ LatestFcfPositive
    /\ ValuationReturned
    /\ FGt(last.outcome.value.enterprise_value, R(0))

(***************************************************************************)
(* Monotonicity in the growth rate (specification SpecMono).               *)
(***************************************************************************)
\* Two calls on the same table that differ in the growth rate alone, with
\* discount_rate > terminal_growth_rate, both returning a result.
TwoGrowthRates ==
    /\ prev.op = "calculate_fair_value"
    /\ last.op = "calculate_fair_value"
    /\ prev.outcome.raised = "" /\ prev.outcome.value # None
    /\ last.outcome.raised = "" /\ last.outcome.value # None
    /\ prev.args.discount_rate = last.args.discount_rate
    /\ prev.args.terminal_growth_rate = last.args.terminal_growth_rate
    /\ prev.args.projection_years = last.args.projection_years
    /\ FGt(last.args.discount_rate, last.args.terminal_growth_rate)

GrowthOrdersEnterpriseValue ==
    /\ FLt(prev.args.growth_rate, last.args.growth_rate)
         => FLt(prev.outcome.value.enterprise_value, last.outcome.value.enterprise_value)
    /\ FGt(prev.args.growth_rate, last.args.growth_rate)
         => FGt(prev.outcome.value.enterprise_value, last.outcome.value.enterprise_value)

\* C6 (as claimed): for a fixed table and fixed discount_rate >
\* terminal_growth_rate and projection_years, any two growth rates g1 < g2 give
\* enterprise_value(g1) < enterprise_value(g2).
C6_GrowthStrictlyIncreasesValue == TwoGrowthRates => GrowthOrdersEnterpriseValue

\* C6 (amended): the same, for a table whose latest Free Cash Flow is positive
\* and two assumption sets that both pass validate().
C6_GrowthIncreasesValueOfPositiveFcf ==
    (TwoGrowthRates /\ LatestFcfPositive
        /\ Validate(prev.args)[1] /\ Validate(last.args)[1])
      => GrowthOrdersEnterpriseValue

C6_Witness ==
    /\ TwoGrowthRates
    /\ LatestFcfPositive
    /\ Validate(prev.args)[1]
    /\ Validate(last.args)[1]
    /\ FLt(prev.args.growth_rate, last.args.growth_rate)
    /\ FLt(prev.outcome.value.enterprise_value, last.outcome.value.enterprise_value)

(***************************************************************************)
(* Properties of DcfAssumptions.validate (specification SpecValidate).     *)
(***************************************************************************)
\* s occurs in the string msg.
Contains(msg, s) ==
    \E i \in 1..(Len(msg) - Len(s) + 1) : SubSeq(msg, i, i + Len(s) - 1) = s

WithinHalf(r) == ~FLt(r, <<-1, 2>>) /\ ~FLt(<<1, 2>>, r)

\* The five rules of the claim, each with the sentence that names it.
ViolatedSentences(a) ==
    (IF WithinHalf(a.discount_rate) THEN {}
     ELSE {"Discount rate must be between -50% and 50%."})
    \cup (IF WithinHalf(a.growth_rate) THEN {}
          ELSE {"Growth rate must be between -50% and 50%."})
    \cup (IF WithinHalf(a.terminal_growth_rate) THEN {}
          ELSE {"Terminal growth must be between -50% and 50%."})
    \cup (IF a.projection_years \in 1..20 THEN {}
          ELSE {"Projection years must be between 1 and 20."})
    \cup (IF FGt(a.discount_rate, a.terminal_growth_rate) THEN {}
          ELSE {"Discount rate must be greater than terminal growth rate."})

\* C7: validate returns (True, None) if and only if the three rates lie in
\* [-0.5, 0.5], projection_years lies in [1, 20] and discount_rate >
\* terminal_growth_rate; otherwise it returns (False, message) and the message
\* contains the sentence of every violated rule; discount_rate =
\* terminal_growth_rate = 0.02 fails with the sentence of the relation; the
\* assumptions are left as they were.
C7_ValidateReportsEveryViolation ==
    last.op = "validate" =>
        LET a == last.args
            v == last.outcome.value
        IN  /\ last.outcome.raised = ""
            /\ (v = <<TRUE, None>>) <=> (ViolatedSentences(a) = {})
            /\ ViolatedSentences(a) # {} =>
                 /\ v[1] = FALSE
                 /\ v[2] # None
                 /\ \A s \in ViolatedSentences(a) : Contains(v[2][1], s)
            /\ (a.discount_rate = <<1, 50>> /\ a.terminal_growth_rate = <<1, 50>>) =>
                 /\ v[1] = FALSE
                 /\ Contains(v[2][1], "Discount rate must be greater than terminal growth rate.")
            /\ assumptions = a

C7_Witness ==
    /\ last.op = "validate"
    /\ last.args.discount_rate = <<1, 50>>
    /\ last.args.terminal_growth_rate = <<1, 50>>
    /\ last.args.projection_years = 21
    /\ last.outcome.value[1] = FALSE
    /\ Contains(last.outcome.value[2][1], "Projection years must be between 1 and 20.")
    /\ Contains(last.outcome.value[2][1], "Discount rate must be greater than terminal growth rate.")

(***************************************************************************)
(* Properties of calculate_fair_value_range (specification SpecRange).     *)
(***************************************************************************)
\* The (discount, growth) pairs of the 3 x 3 grid around the base assumptions.
GridPairs(a) ==
    {FSub(a.discount_rate, variation.discount), a.discount_rate,
     FAdd(a.discount_rate, variation.discount)}
    \X {FSub(a.growth_rate, variation.growth), a.growth_rate,
        FAdd(a.growth_rate, variation.growth)}

\* The per-share values the evaluated scenarios produced.
ProducedValues(o) ==
    {o.results[k].value.fair_value_per_share :
        k \in {j \in 1..Len(o.results) :
                 /\ o.results[j].value # None
                 /\ o.results[j].value.fair_value_per_share # None}}

\* C8 (as claimed): a call of calculate_fair_value_range that returns has
\* evaluated exactly the 9 scenarios of the grid, with the base terminal growth
\* and projection years; it returns null only if no scenario produced a
\* per-share value, and otherwise (lo, hi) with lo the minimum and hi the
\* maximum of the values produced, lo <= hi.
C8_RangeIsMinMaxOfGrid ==
    (last.op = "calculate_fair_value_range" /\ last.outcome.raised = "") =>
        LET o == last.outcome
            a == last.args
        IN  /\ Len(o.scenarios) = 9
            /\ {<<o.scenarios[k].discount_rate, o.scenarios[k].growth_rate>> :
                   k \in 1..9} = GridPairs(a)
            /\ \A k \in 1..9 :
                 /\ o.scenarios[k].terminal_growth_rate = a.terminal_growth_rate
                 /\ o.scenarios[k].projection_years = a.projection_years
            /\ (o.value = None) <=> (ProducedValues(o) = {})
            /\ o.value # None =>
                 /\ o.value[1] \in ProducedValues(o)
                 /\ o.value[2] \in ProducedValues(o)
                 /\ \A v \in ProducedValues(o) : FLe(o.value[1], v) /\ FLe(v, o.value[2])
                 /\ FLe(o.value[1], o.value[2])

\* The per-share values of the first k scenarios, those left out whose discount
\* rate is equal to or below the terminal growth rate.
RECURSIVE ValuesOfValidScenarios(_, _)
ValuesOfValidScenarios(o, k) ==
    IF k = 0 THEN <<>>
    ELSE IF /\ FGt(o.scenarios[k].discount_rate, o.scenarios[k].terminal_growth_rate)
            /\ o.results[k].value # None
            /\ o.results[k].value.fair_value_per_share # None
         THEN Append(ValuesOfValidScenarios(o, k - 1),
                     o.results[k].value.fair_value_per_share)
         ELSE ValuesOfValidScenarios(o, k - 1)

\* C9 (as claimed): a grid scenario whose discount rate is equal to or below
\* the terminal growth rate is skipped: it adds nothing to the collected values
\* and does not abort the call, and the range is that of the other scenarios.
C9_InvalidScenarioSkipped ==
    last.op = "calculate_fair_value_range" =>
        LET o == last.outcome
        IN  /\ o.raised = ""
            /\ o.fair_values = ValuesOfValidScenarios(o, 9)
            /\ o.value # None =>
                 \A i \in 1..2 :
                    \E k \in 1..Len(o.fair_values) : o.value[i] = o.fair_values[k]

\* The columns the selection rule allows on a balance sheet with columns: the
\* columns of the largest parsed date when a label parses, the first otherwise.
Parses(label) == label.form # "text"

RuleColumns(frame) ==
    LET cols == frame.columns
    IN  IF \E j \in 1..Len(cols) : Parses(cols[j])
        THEN {c \in 1..Len(cols) :
                /\ Parses(cols[c])
                /\ \A k \in 1..Len(cols) :
                       Parses(cols[k]) => cols[k].date <= cols[c].date}
        ELSE {1}

\* The number in a row of column c, None when the row is missing or its cell
\* is no number.
NumberAt(frame, row, c) ==
    IF \E r \in 1..Len(frame.index) : frame.index[r] = row /\ Len(frame.cells[r][c]) = 2
    THEN frame.cells[CHOOSE r \in 1..Len(frame.index) : frame.index[r] = row][c]
    ELSE None

\* The first number among rows of column c, None when there is none.
RECURSIVE FirstNumberAt(_, _, _, _)
FirstNumberAt(frame, rows, c, k) ==
    IF k > Len(rows) THEN None
    ELSE IF NumberAt(frame, rows[k], c) # None THEN NumberAt(frame, rows[k], c)
    ELSE FirstNumberAt(frame, rows, c, k + 1)

ZeroIfNone(x) == IF x = None THEN R(0) ELSE x

\* The cash and the debt that column c of a balance sheet holds.
CashOfColumn(frame, c) ==
    ZeroIfNone(FirstNumberAt(frame, BALANCE_SHEET_CASH_FIELDS, c, 1))

DebtOfColumn(frame, c) ==
    IF FirstNumberAt(frame, BALANCE_SHEET_TOTAL_DEBT_FIELDS, c, 1) # None
    THEN FirstNumberAt(frame, BALANCE_SHEET_TOTAL_DEBT_FIELDS, c, 1)
    ELSE FAdd(ZeroIfNone(FirstNumberAt(frame, LONG_TERM_DEBT_FIELDS, c, 1)),
              ZeroIfNone(FirstNumberAt(frame, SHORT_TERM_DEBT_FIELDS, c, 1)))

\* The last operation was a call of extract_fundamentals that returned.
SnapshotReturned ==
    /\ last.op = "extract_fundamentals"
    /\ last.outcome.raised = ""

FundamentalsExtracted ==
    /\ SnapshotReturned
    /\ balance_sheet # None

\* C10: on a balance sheet that has columns (of distinct labels) and rows,
\* extract_fundamentals reads cash and debt from, and reports as
\* balance_sheet_as_of, one column: the column of the largest parsed date when
\* a label parses, whatever its position, and never a column whose label does
\* not parse; the first column when no label parses, and then
\* balance_sheet_as_of is that column's label.
C10_LatestColumnSelected ==
    FundamentalsExtracted =>
        (~Empty(balance_sheet) =>
            \E c \in RuleColumns(balance_sheet) :
                LET snapshot == last.outcome.value
                    label == balance_sheet.columns[c]
                IN  /\ snapshot.balance_sheet_as_of =
                           (IF Parses(label) THEN Iso(label.date) ELSE label)
                    /\ snapshot.cash_and_equivalents = CashOfColumn(balance_sheet, c)
                    /\ snapshot.total_debt = DebtOfColumn(balance_sheet, c))

\* Three columns out of order, the latest neither first nor last, every cell
\* another number: the cash reported is the cash of the latest column.
C10_Witness ==
    /\ FundamentalsExtracted
    /\ balance_sheet # None
    /\ balance_sheet.columns = <<Iso(1), Ts(2), Text("FY2024")>>
    /\ balance_sheet.index = <<"Total Debt", "Cash">>
    /\ last.outcome.value.cash_and_equivalents = R(22)
    /\ last.outcome.value.total_debt = R(21)
    /\ last.outcome.value.balance_sheet_as_of = Iso(2)

\* No label parses: the first column is read and its label reported.
C10_FallbackWitness ==
    /\ FundamentalsExtracted
    /\ balance_sheet # None
    /\ balance_sheet.columns = <<Text("FY2024")>>
    /\ last.outcome.value.balance_sheet_as_of = Text("FY2024")
    /\ last.outcome.value.cash_and_equivalents = R(12)

(***************************************************************************)
(* Resolution of cash, debt and shares (specification SpecFund).           *)
(***************************************************************************)
\* The column extract_fundamentals reads on a balance sheet with columns: of
\* the columns the rule allows, the first.
SelectedColumn(frame) ==
    CHOOSE c \in RuleColumns(frame) : \A k \in RuleColumns(frame) : c <= k

\* A row label matches in column c when the table has that row and its cell
\* in the column converts to a float.
Matches(frame, row, c) == NumberAt(frame, row, c) # None

\* No balance sheet at all: null, or a table without columns or without rows.
NoSheet ==
    IF balance_sheet = None THEN TRUE
    ELSE Len(balance_sheet.columns) = 0 \/ Len(balance_sheet.index) = 0

SheetRead == SnapshotReturned /\ ~NoSheet

\* C11: the cash labels are tried in the order 'Cash And Cash Equivalents',
\* 'Cash', 'CashAndCashEquivalents': cash_and_equivalents is the selected
\* column's value of the first label that matches and cash_source is that
\* label, so a later label is never used when an earlier one matched.
C11_FirstCashLabelWins ==
    SheetRead =>
        LET c == SelectedColumn(balance_sheet)
            snapshot == last.outcome.value
            order == <<"Cash And Cash Equivalents", "Cash", "CashAndCashEquivalents">>
        IN  \A k \in 1..3 :
                (/\ Matches(balance_sheet, order[k], c)
                 /\ \A j \in 1..(k - 1) : ~Matches(balance_sheet, order[j], c))
                => /\ snapshot.cash_and_equivalents = NumberAt(balance_sheet, order[k], c)
                   /\ snapshot.cash_source = Str(order[k])

\* 'CashAndCashEquivalents' stands above 'Cash' in the table and both match:
\* 'Cash' is the source.
C11_Witness ==
    /\ SheetRead
    /\ balance_sheet.index = <<"Net Debt", "CashAndCashEquivalents", "Cash">>
    /\ balance_sheet.columns = <<Iso(1)>>
    /\ balance_sheet.cells[2][1] = R(12)
    /\ last.outcome.value.cash_and_equivalents = R(13)
    /\ last.outcome.value.cash_source = Str("Cash")

\* The first of a list of row labels that matches in column c, None when none.
RECURSIVE FirstMatch(_, _, _, _)
FirstMatch(frame, rows, c, k) ==
    IF k > Len(rows) THEN None
    ELSE IF Matches(frame, rows[k], c) THEN Str(rows[k])
    ELSE FirstMatch(frame, rows, c, k + 1)

\* C12: when a 'Total Debt' row, else a 'Net Debt' row, resolves, total_debt
\* is that value; otherwise total_debt is long-term plus short-term, long-term
\* being 'Long Term Debt' and short-term the first resolving of 'Short Long
\* Term Debt', 'Short Term Debt', 'Current Debt', an unresolved component
\* counting as zero when the other resolved; when neither resolves the debt is
\* unresolved: no source, and the zero is tagged as assumed.
C12_DebtResolution ==
    SheetRead =>
        LET c == SelectedColumn(balance_sheet)
            snapshot == last.outcome.value
            direct == FirstNumberAt(balance_sheet, <<"Total Debt", "Net Debt">>, c, 1)
            long == NumberAt(balance_sheet, "Long Term Debt", c)
            short == FirstNumberAt(balance_sheet,
                        <<"Short Long Term Debt", "Short Term Debt", "Current Debt">>, c, 1)
        IN  /\ direct # None =>
                 /\ snapshot.total_debt = direct
                 /\ snapshot.debt_source =
                        FirstMatch(balance_sheet, <<"Total Debt", "Net Debt">>, c, 1)
            /\ (direct = None /\ (long # None \/ short # None)) =>
                 /\ snapshot.total_debt = FAdd(ZeroIfNone(long), ZeroIfNone(short))
                 /\ snapshot.debt_source = Str("Long Term Debt + Short Term Debt")
            /\ (direct = None /\ long = None /\ short = None) =>
                 /\ snapshot.debt_source = None
                 /\ \E k \in 1..Len(snapshot.note_tags) :
                        snapshot.note_tags[k] = "ASSUMED_DEBT_ZERO"

\* Only the long-term component resolves: the short-term one counts as zero.
C12_Witness ==
    /\ SheetRead
    /\ balance_sheet.index = <<"Short Term Debt", "Long Term Debt">>
    /\ balance_sheet.columns = <<Iso(1)>>
    /\ balance_sheet.cells[1][1] = Str("n/a")
    /\ last.outcome.value.total_debt = R(12)
    /\ last.outcome.value.debt_source = Str("Long Term Debt + Short Term Debt")

HasTag(snapshot, tag) ==
    \E k \in 1..Len(snapshot.note_tags) : snapshot.note_tags[k] = tag

HasWarning(snapshot, warning) ==
    \E k \in 1..Len(snapshot.warnings) : snapshot.warnings[k] = warning

\* Cash, or debt, is unresolved: there is no balance sheet, or none of its
\* labels matches in the selected column.
CashUnresolved ==
    IF NoSheet THEN TRUE
    ELSE FirstNumberAt(balance_sheet,
             <<"Cash And Cash Equivalents", "Cash", "CashAndCashEquivalents">>,
             SelectedColumn(balance_sheet), 1) = None

DebtUnresolved ==
    IF NoSheet THEN TRUE
    ELSE FirstNumberAt(balance_sheet,
             <<"Total Debt", "Net Debt", "Long Term Debt", "Short Long Term Debt",
               "Short Term Debt", "Current Debt">>,
             SelectedColumn(balance_sheet), 1) = None

\* C13: in every snapshot ASSUMED_CASH_ZERO is tagged if and only if cash was
\* unresolved, and then cash_and_equivalents = 0.0, cash_source is null and the
\* warning was appended; likewise ASSUMED_DEBT_ZERO for debt; a row that
\* resolves, to exactly 0.0 too, gives a non-null source, no tag and no warning.
C13_AssumedZeroTags ==
    SnapshotReturned =>
        LET snapshot == last.outcome.value
        IN  /\ HasTag(snapshot, "ASSUMED_CASH_ZERO") <=> CashUnresolved
            /\ CashUnresolved =>
                 /\ snapshot.cash_and_equivalents = R(0)
                 /\ snapshot.cash_source = None
                 /\ HasWarning(snapshot, "Cash & equivalents missing; assuming 0.")
            /\ ~CashUnresolved =>
                 /\ snapshot.cash_source # None
                 /\ ~HasWarning(snapshot, "Cash & equivalents missing; assuming 0.")
            /\ HasTag(snapshot, "ASSUMED_DEBT_ZERO") <=> DebtUnresolved
            /\ DebtUnresolved =>
                 /\ snapshot.total_debt = R(0)
                 /\ snapshot.debt_source = None
                 /\ HasWarning(snapshot, "Total debt missing; assuming 0.")
            /\ ~DebtUnresolved =>
                 /\ snapshot.debt_source # None
                 /\ ~HasWarning(snapshot, "Total debt missing; assuming 0.")

\* A cash row that holds exactly 0.0 next to a debt that is unresolved: the
\* two zeros are told apart.
C13_Witness ==
    /\ SheetRead
    /\ balance_sheet.index = <<"Cash And Cash Equivalents", "Short Long Term Debt", "Long Term Debt">>
    /\ balance_sheet.cells[1][1] = R(0)
    /\ last.outcome.value.cash_and_equivalents = R(0)
    /\ last.outcome.value.cash_source = Str("Cash And Cash Equivalents")
    /\ ~HasTag(last.outcome.value, "ASSUMED_CASH_ZERO")

\* Both zeros assumed: a table without any cash or debt row.
C13_AssumedWitness ==
    /\ SheetRead
    /\ balance_sheet.index = <<"Total Assets">>
    /\ last.outcome.value.total_debt = R(0)
    /\ HasTag(last.outcome.value, "ASSUMED_DEBT_ZERO")
    /\ HasTag(last.outcome.value, "ASSUMED_CASH_ZERO")

\* A share field that is present and positive.
PresentAndPositive(x) == IF Len(x) = 2 THEN FGt(x, R(0)) ELSE FALSE

\* The share count and source the claim prescribes for a pair of share fields.
ClaimedShares(inf) ==
    IF PresentAndPositive(inf.sharesOutstanding)
    THEN <<inf.sharesOutstanding, Str("sharesOutstanding")>>
    ELSE IF PresentAndPositive(inf.impliedSharesOutstanding)
    THEN <<inf.impliedSharesOutstanding, Str("impliedSharesOutstanding")>>
    ELSE <<None, None>>

\* C14 (as claimed): shares_outstanding is info['sharesOutstanding'] when that
\* is present and positive, else info['impliedSharesOutstanding'] when that is
\* present and positive, with the field's name as shares_source; else both are
\* null, the warning is appended and MISSING_SHARES is tagged. The count
\* returned is never zero or negative, and MISSING_SHARES is tagged exactly
\* when it is null.
C14_SharesResolution ==
    SnapshotReturned =>
        LET snapshot == last.outcome.value
        IN  /\ snapshot.shares_outstanding = ClaimedShares(info)[1]
            /\ snapshot.shares_source = ClaimedShares(info)[2]
            /\ ClaimedShares(info)[1] = None =>
                 /\ HasWarning(snapshot,
                        "Shares outstanding unavailable; per-share valuation disabled.")
                 /\ HasTag(snapshot, "MISSING_SHARES")
            /\ snapshot.shares_outstanding # None =>
                 ~FLe(snapshot.shares_outstanding, R(0))
            /\ HasTag(snapshot, "MISSING_SHARES") <=> snapshot.shares_outstanding = None

\* C15: in every snapshot net_debt is not null and is total_debt -
\* cash_and_equivalents, the value that subtraction computes; when the balance
\* sheet is absent and both were defaulted to zero, net_debt = 0.
C15_NetDebtDerivable ==
    SnapshotReturned =>
        LET snapshot == last.outcome.value
        IN  /\ snapshot.net_debt # None
            /\ snapshot.net_debt = FSub(snapshot.total_debt, snapshot.cash_and_equivalents)
            /\ NoSheet => snapshot.net_debt = R(0)

\* A debt summed from two components against the cash of the same column: a
\* net debt that is neither operand.
C15_Witness ==
    /\ SheetRead
    /\ balance_sheet.index = <<"Cash And Cash Equivalents", "Short Long Term Debt", "Long Term Debt">>
    /\ last.outcome.value.cash_and_equivalents = R(11)
    /\ last.outcome.value.total_debt = R(25)
    /\ last.outcome.value.net_debt = R(14)

\* C16: in every snapshot NET_CASH is tagged whenever net_debt < 0 and absent
\* whenever net_debt >= 0, in particular when cash and debt were both
\* defaulted to zero.
C16_NetCashTag ==
    SnapshotReturned =>
        LET snapshot == last.outcome.value
        IN  /\ FLt(snapshot.net_debt, R(0)) => HasTag(snapshot, "NET_CASH")
            /\ FLe(R(0), snapshot.net_debt) => ~HasTag(snapshot, "NET_CASH")
            /\ (CashUnresolved /\ DebtUnresolved) => ~HasTag(snapshot, "NET_CASH")

\* More cash than debt: tagged.
C16_Witness ==
    /\ SheetRead
    /\ balance_sheet.index = <<"Total Debt", "Cash">>
    /\ last.outcome.value.net_debt = R(-1)
    /\ HasTag(last.outcome.value, "NET_CASH")

\* A net debt of exactly zero: not tagged.
C16_ZeroWitness ==
    /\ SnapshotReturned
    /\ last.outcome.value.net_debt = R(0)
    /\ ~HasTag(last.outcome.value, "NET_CASH")

\* C17: when the balance sheet is null or empty, cash and debt take the
\* unresolved path (0.0, null source, ASSUMED_CASH_ZERO and ASSUMED_DEBT_ZERO),
\* NO_BALANCE_SHEET is tagged and balance_sheet_as_of is null; whenever a
\* non-empty balance sheet is passed, balance_sheet_as_of is not null and
\* NO_BALANCE_SHEET is absent.
C17_NoBalanceSheet ==
    SnapshotReturned =>
        LET snapshot == last.outcome.value
        IN  /\ NoSheet =>
                 /\ snapshot.cash_and_equivalents = R(0)
                 /\ snapshot.total_debt = R(0)
                 /\ snapshot.cash_source = None
                 /\ snapshot.debt_source = None
                 /\ HasTag(snapshot, "ASSUMED_CASH_ZERO")
                 /\ HasTag(snapshot, "ASSUMED_DEBT_ZERO")
                 /\ HasTag(snapshot, "NO_BALANCE_SHEET")
                 /\ snapshot.balance_sheet_as_of = None
            /\ ~NoSheet =>
                 /\ snapshot.balance_sheet_as_of # None
                 /\ ~HasTag(snapshot, "NO_BALANCE_SHEET")

\* A table with two columns and no rows is empty.
C17_Witness ==
    /\ SnapshotReturned
    /\ balance_sheet # None
    /\ Len(balance_sheet.columns) = 2
    /\ Len(balance_sheet.index) = 0
    /\ HasTag(last.outcome.value, "NO_BALANCE_SHEET")
    /\ last.outcome.value.balance_sheet_as_of = None

\* A table whose cells are all text: nothing resolves, yet the sheet is there.
C17_SheetWitness ==
    /\ SheetRead
    /\ CashUnresolved
    /\ DebtUnresolved
    /\ last.outcome.value.balance_sheet_as_of # None
    /\ ~HasTag(last.outcome.value, "NO_BALANCE_SHEET")

\* C18 (as claimed): extract_fundamentals never raises: for every info mapping,
\* whatever the types of its share fields, and every balance sheet, it
\* returns a snapshot.
C18_NeverRaises ==
    last.op = "extract_fundamentals" =>
        /\ last.outcome.raised = ""
        /\ last.outcome.value # None

\* Two calls of extract_fundamentals, one after the other, that both returned;
\* no action changes info or the balance sheet.
TwoSnapshots ==
    /\ prev.op = "extract_fundamentals"
    /\ last.op = "extract_fundamentals"
    /\ prev.outcome.raised = ""
    /\ last.outcome.raised = ""

\* C19 (as claimed): two calls with the same info and balance sheet, made at
\* any two times, return snapshots that are equal in every field.
C19_SameInputsSameSnapshot ==
    TwoSnapshots => prev.outcome.value = last.outcome.value

(***************************************************************************)
(* Scores of the screener (specification SpecScreen).                      *)
(***************************************************************************)
\* The screener returned a table of scored rows.
Screened ==
    /\ last.op = "analyze_quality_value_screener"
    /\ last.outcome.raised = ""
    /\ last.outcome.value # None

\* The percentile rank of row i in a column of the table, ties at the lowest
\* rank of their group: one more than the number of smaller entries, over the
\* number of entries that have a value.
MinPercentile(table, column, i) ==
    LET valued == {j \in 1..Len(table) : table[j].row[column] # None}
        smaller == {j \in valued : FLt(table[j].row[column], table[i].row[column])}
    IN  <<Cardinality(smaller) + 1, Cardinality(valued)>>

SameFraction(a, b) == a[1] * b[2] = b[1] * a[2]

\* C20 (as claimed): over the screened tickers quality_score is the percentile
\* rank of raw ROE and growth_score that of raw revenue growth, tied values
\* all receiving the lowest rank of their group, a higher raw value never a
\* lower score; stability_score is 1 minus the percentile rank of
\* debt-to-equity under the same convention.
C20_PercentileScoresMinTies ==
    Screened =>
        LET table == last.outcome.value
        IN  \A i \in 1..Len(table) :
              /\ table[i].row.raw_roe # None =>
                   SameFraction(table[i].quality_score,
                                MinPercentile(table, "raw_roe", i))
              /\ table[i].row.raw_revenue_growth # None =>
                   SameFraction(table[i].growth_score,
                                MinPercentile(table, "raw_revenue_growth", i))
              /\ table[i].row.raw_debt_to_equity # None =>
                   SameFraction(FSub(R(1), table[i].stability_score),
                                MinPercentile(table, "raw_debt_to_equity", i))
              /\ \A j \in 1..Len(table) :
                   (/\ table[i].row.raw_roe # None
                    /\ table[j].row.raw_roe # None
                    /\ FLt(table[i].row.raw_roe, table[j].row.raw_roe))
                   => FLe(table[i].quality_score, table[j].quality_score)

\* A score that is a number between 0 and 1.
UnitScore(x) ==
    /\ x # None
    /\ IsFinite(x)
    /\ FLe(R(0), x)
    /\ FLe(x, R(1))

\* C21: a ticker whose raw ROE, revenue growth or debt-to-equity is missing
\* stays in the output and gets exactly 0.5 for the corresponding score; every
\* ticker of the output has its three scores non-null and within [0, 1].
C21_MissingMetricScoresHalf ==
    Screened =>
        LET table == last.outcome.value
        IN  /\ \A k \in 1..Len(tickers) :
                 ~Skipped(tickers[k]) =>
                     \E i \in 1..Len(table) : table[i].row.ticker = k
            /\ \A i \in 1..Len(table) :
                 /\ table[i].row.raw_roe = None => table[i].quality_score = <<1, 2>>
                 /\ table[i].row.raw_revenue_growth = None => table[i].growth_score = <<1, 2>>
                 /\ table[i].row.raw_debt_to_equity = None => table[i].stability_score = <<1, 2>>
                 /\ UnitScore(table[i].quality_score)
                 /\ UnitScore(table[i].growth_score)
                 /\ UnitScore(table[i].stability_score)

\* A ticker without debt-to-equity next to two that have one.
C21_Witness ==
    /\ Screened
    /\ Len(last.outcome.value) = 3
    /\ \E i \in 1..3 :
         /\ last.outcome.value[i].row.raw_debt_to_equity = None
         /\ last.outcome.value[i].row.raw_roe # None
         /\ last.outcome.value[i].stability_score = <<1, 2>>
    /\ \E i \in 1..3 : last.outcome.value[i].stability_score = R(0)

(***************************************************************************)
(* C22: the overall score of every screened ticker is the weighted sum     *)
(* w_value*value_score + w_quality*quality_score + w_growth*growth_score + *)
(* w_stability*stability_score; the four weights are non-negative and sum  *)
(* to 1 for every configured value_weight, and are 0.4/0.3/0.2/0.1 by      *)
(* default.                                                                *)
(***************************************************************************)
WeightedSum(r) ==
    FAdd(FAdd(FAdd(FMul(VALUE_WEIGHT, r.row.value_score),
                   FMul(QUALITY_WEIGHT, r.quality_score)),
              FMul(GROWTH_WEIGHT, r.growth_score)),
         FMul(STABILITY_WEIGHT, r.stability_score))

Weights == <<VALUE_WEIGHT, QUALITY_WEIGHT, GROWTH_WEIGHT, STABILITY_WEIGHT>>

WeightsNormalised ==
    /\ \A k \in 1..4 : FLe(R(0), Weights[k])
    /\ FAdd(FAdd(FAdd(Weights[1], Weights[2]), Weights[3]), Weights[4]) = R(1)

DefaultWeights ==
    garp_assumptions.value_weight \in {None, <<2, 5>>} =>
        Weights = << <<2, 5>>, <<3, 10>>, <<1, 5>>, <<1, 10>> >>

Rendered ==
    /\ last.op = "render_quality_value_screener"
    /\ last.outcome.raised = ""
    /\ last.outcome.value # None

\* The five score columns of the displayed table with their rank columns.
ScoreAndRank(t) ==
    {<<[i \in 1..Len(t) |-> t[i].scores.row.value_score],
       [i \in 1..Len(t) |-> t[i].value_rank]>>,
     <<[i \in 1..Len(t) |-> t[i].scores.quality_score],
       [i \in 1..Len(t) |-> t[i].quality_rank]>>,
     <<[i \in 1..Len(t) |-> t[i].scores.growth_score],
       [i \in 1..Len(t) |-> t[i].growth_rank]>>,
     <<[i \in 1..Len(t) |-> t[i].scores.stability_score],
       [i \in 1..Len(t) |-> t[i].stability_rank]>>,
     <<[i \in 1..Len(t) |-> t[i].scores.overall_score],
       [i \in 1..Len(t) |-> t[i].overall_rank]>>}

MinConvention(score, rank) ==
    /\ \E i \in 1..Len(rank) : rank[i] = 1
    /\ \A i, j \in 1..Len(rank) :
         /\ score[i] = score[j] => rank[i] = rank[j]
         /\ FGt(score[i], score[j]) => rank[i] < rank[j]
    /\ \A i \in 1..Len(rank) :
         rank[i] = 1 + Cardinality({j \in 1..Len(rank) : rank[j] < rank[i]})

C23_OrderedAndMinRanked ==
    Rendered =>
        LET t == last.outcome.value
        IN  /\ \A i, j \in 1..Len(t) :
                 i < j => ~FGt(t[j].scores.overall_score, t[i].scores.overall_score)
            /\ \A c \in ScoreAndRank(t) : MinConvention(c[1], c[2])

C23_Witness ==
    /\ Rendered
    /\ LET t == last.outcome.value
       IN  /\ Len(t) = 3
           /\ FGt(t[1].scores.overall_score, t[3].scores.overall_score)
           /\ t[1].quality_rank = 1
           /\ t[2].quality_rank = 1
           /\ t[3].quality_rank = 3
           /\ \E i \in 1..3 : t[i].overall_rank = 3

(***************************************************************************)
(* Properties of the batch loops (specification SpecBatch).                *)
(***************************************************************************)
InBatch == loop.op \in {"analyze_quality_value_screener", "analyze_sp500_deals"}

\* A ticker with a price, a non-empty cash flow, a valuation and no exception.
Qualifies(feed) ==
    /\ ~feed.raises
    /\ feed.current_price # None
    /\ ~feed.cashflow_empty
    /\ feed.valuation # None

ResultsOfQualified ==
    /\ \A a, b \in 1..Len(loop.results) :
           a < b => loop.results[a].ticker < loop.results[b].ticker
    /\ {loop.results[a].ticker : a \in 1..Len(loop.results)} =
           {k \in 1..loop.i : Qualifies(tickers[k])}
    /\ \A a \in 1..Len(loop.results) :
           loop.results[a].current_price = tickers[loop.results[a].ticker].current_price

ResultsKept ==
    /\ Len(loop.results) <= Len(loop.results')
    /\ SubSeq(loop.results', 1, Len(loop.results)) = loop.results

(***************************************************************************)
(* C24: in both batch loops every ticker is visited exactly once in list   *)
(* order whatever its outcome, a failing ticker neither ends the batch nor *)
(* removes earlier results, and the results are exactly the tickers with a *)
(* price, a non-empty cash flow, a valuation and no exception, in list     *)
(* order.                                                                  *)
(***************************************************************************)
C24_BatchVisitsEveryTicker ==
    /\ [](InBatch =>
            /\ loop.visited = [k \in 1..loop.i |-> k]
            /\ ResultsOfQualified
            /\ loop.pc = "done" => loop.i = Len(tickers))
    /\ [][InBatch => ResultsKept]_vars

C24_Witness ==
    /\ loop.op = "analyze_sp500_deals"
    /\ loop.pc = "done"
    /\ Len(tickers) = 3
    /\ Qualifies(tickers[1])
    /\ tickers[2].raises
    /\ Qualifies(tickers[3])
    /\ loop.visited = <<1, 2, 3>>
    /\ Len(loop.results) = 2
    /\ loop.results[2].ticker = 3

(***************************************************************************)
(* C30: in each batch loop, once the ticker at index i has been handled    *)
(* (appended, skipped or failed) the progress indicator is (i + 1) / total;*)
(* the progress never decreases and is 1 when a non-empty batch finishes.  *)
(***************************************************************************)
C30_ProgressFollowsLoop ==
    /\ [](InBatch =>
            /\ loop.i >= 1 => loop.progress = Norm(loop.i, Len(tickers))
            /\ (loop.pc = "done" /\ Len(tickers) > 0) => loop.progress = R(1))
    /\ [][InBatch => FLe(loop.progress, loop.progress')]_vars

(***************************************************************************)
(* Properties of the arguments of calculate_fair_value (SpecAssume).       *)
(***************************************************************************)
KeywordCall(c) == c.op = "calculate_fair_value" /\ c.outcome # None

PassesNeither(c) == c.args.assumptions = None /\ c.args.keywords.given = {}

ClaimedDefaults == DcfAssumptions(<<1, 10>>, <<3, 100>>, <<1, 50>>, 5)

\* The four rates the claim says a call values with.
ClaimedRates(c) ==
    IF c.args.assumptions # None THEN c.args.assumptions
    ELSE [name \in DOMAIN ClaimedDefaults |->
            IF name \in c.args.keywords.given THEN c.args.keywords.values[name]
            ELSE ClaimedDefaults[name]]

UsesClaimedRates ==
    KeywordCall(last) =>
        last.outcome = CalculateFairValue(cashflow, net_debt, shares_outstanding,
                                          ClaimedRates(last))

NeitherEqualsDefaults ==
    /\ Defaults = ClaimedDefaults
    /\ (KeywordCall(last) /\ KeywordCall(prev)) =>
         /\ (PassesNeither(prev) /\ last.args.assumptions = ClaimedDefaults)
                => last.outcome = prev.outcome
         /\ (PassesNeither(last) /\ prev.args.assumptions = ClaimedDefaults)
                => last.outcome = prev.outcome

DifferentAssumptionsDifferentValue ==
    (/\ KeywordCall(last)
     /\ KeywordCall(prev)
     /\ last.args.assumptions # None
     /\ prev.args.assumptions # None
     /\ last.args.assumptions # prev.args.assumptions
     /\ last.outcome.value # None
     /\ prev.outcome.value # None)
        => last.outcome.value.enterprise_value # prev.outcome.value.enterprise_value

ColumnsCompared == last.op = "_latest_period_column"

NullOrEmpty(t) ==
    IF t = None THEN TRUE ELSE Len(t.columns) = 0 \/ Len(t.index) = 0

C26_SameLatestColumn ==
    ColumnsCompared =>
        LET period == last.outcome.value.period
            picked == last.outcome.value.info[1]
        IN  /\ period = picked
            /\ IF NullOrEmpty(cashflow) THEN period = None
               ELSE \E c \in RuleColumns(cashflow) : period = cashflow.columns[c]

C26_Witness ==
    /\ ColumnsCompared
    /\ cashflow # None
    /\ Len(cashflow.columns) = 3
    /\ cashflow.columns[1] = Text("FY2024")
    /\ cashflow.columns[2] = Iso(2)
    /\ cashflow.columns[3] = Iso(1)
    /\ Len(cashflow.index) > 0
    /\ last.outcome.value.period = Iso(2)
    /\ last.outcome.value.info[1] = Iso(2)

(***************************************************************************)
(* C27: the screener's value_score is floored at 0: it is 0 whenever the   *)
(* fair value per share is at most the current price, null (None or NaN)   *)
(* or not positive, it is (fair_value - price) / fair_value otherwise, and *)
(* so it lies in [0, 1) for every ticker with a positive current price.    *)
(***************************************************************************)
ScreenerRows == IF loop.op = "analyze_quality_value_screener" THEN loop.results ELSE <<>>

NoUpside(fair_value, price) ==
    IF fair_value = None THEN TRUE
    ELSE \/ IsNaN(fair_value)
         \/ FLe(fair_value, R(0))
         \/ FLe(fair_value, price)

C27_ValueScoreFloored ==
    \A a \in 1..Len(ScreenerRows) :
        LET row == ScreenerRows[a]
        IN  /\ IF NoUpside(row.fair_value, row.current_price)
               THEN row.value_score = R(0)
               ELSE row.value_score =
                        FDiv(FSub(row.fair_value, row.current_price), row.fair_value)
            /\ FGt(row.current_price, R(0)) =>
                   (FLe(R(0), row.value_score) /\ FLt(row.value_score, R(1)))

C27_Witness ==
    /\ Len(ScreenerRows) = 3
    /\ ScreenerRows[1].fair_value = R(20)
    /\ ScreenerRows[1].current_price = R(10)
    /\ ScreenerRows[1].value_score = <<1, 2>>
    /\ ScreenerRows[2].fair_value = R(5)
    /\ ScreenerRows[2].value_score = R(0)
    /\ ScreenerRows[3].fair_value = R(-5)
    /\ ScreenerRows[3].value_score = R(0)

(***************************************************************************)
(* C28: in render_dcf_section the ticker's share count reaches             *)
(* calculate_fair_value and calculate_fair_value_range as their            *)
(* shares_outstanding argument, not as net_debt, so with a positive share  *)
(* count and a cash-flow table that has a Free Cash Flow row the displayed *)
(* fair value per share and its range are non-null and equal               *)
(* equity_value / shares.                                                  *)
(***************************************************************************)
DcfRendered == last.op = "render_dcf_section"

PositiveShares ==
    IF info.sharesOutstanding = None THEN FALSE ELSE FGt(info.sharesOutstanding, R(0))

HasFreeCashFlowRow ==
    IF cashflow = None THEN FALSE
    ELSE /\ Len(cashflow.columns) > 0
         /\ \E r \in 1..Len(cashflow.index) : cashflow.index[r] = "Free Cash Flow"

C28_SharesReachValuation ==
    (DcfRendered /\ PositiveShares /\ HasFreeCashFlowRow) =>
        LET shown == last.outcome
        IN  /\ shown.raised = ""
            /\ shown.bound # None
            /\ shown.bound.shares_outstanding = info.sharesOutstanding
            /\ shown.bound.net_debt = None
            /\ shown.base # None
            /\ shown.base.fair_value_per_share # None
            /\ shown.base.fair_value_per_share =
                   FDiv(shown.base.equity_value, info.sharesOutstanding)
            /\ shown.range # None

(***************************************************************************)
(* C29: the load_stock_bundle that single_stock_analysis calls returns a   *)
(* pair (data, timeframe_note): the cached pull, one uncached pull when    *)
(* the cached pull raises or is incomplete, and ({}, note) when that fails *)
(* or is incomplete too, so the caller's unpacking into data and           *)
(* timeframe_note succeeds after every outcome of the fetch.               *)
(***************************************************************************)
BundleLoaded ==
    /\ last.op = "single_stock_analysis"
    /\ bundle.ticker # ""

Usable(pull) ==
    /\ ~pull.raises
    /\ Len(pull.keys) > 0
    /\ pull.has_info \/ pull.has_history

C29_BundleIsPair ==
    BundleLoaded =>
        LET shown == last.outcome
        IN  /\ shown.returned.raised = ""
            /\ DOMAIN shown.returned.value = 1..2
            /\ shown.data = shown.returned.value[1]
            /\ shown.timeframe_note = shown.returned.value[2]
            /\ shown.data =
                   (IF Usable(bundle.cached) THEN bundle.cached
                    ELSE IF Usable(bundle.fresh) THEN bundle.fresh
                    ELSE Pulled(FALSE, <<>>, FALSE, FALSE))

============================================================================
